---- MODULE Spec2Model ----
(***************************************************************************)
(* A model of the agent-output parsing engine of ai_scout_project          *)
(* (src/services/case_parser.py).                                          *)
(*                                                                         *)
(* Text is a sequence of characters.  A character is a one-element string; *)
(* the characters that are not ASCII carry a name:                         *)
(*   "NL"    line feed                 "NNBSP" U+202F narrow no-break space *)
(*   "EN"    U+2013 en dash            "EM"    U+2014 em dash              *)
(*   "BT"    the backtick                                                  *)
(*   "EMOJI" a code point inside the two ranges of EMOJI_RE                *)
(*   "FLAG"  a pictographic code point outside them (U+1F1E6..U+1F1FF)     *)
(*   "cyA", "cyB", ... the Cyrillic letters of the header keywords, named  *)
(*           by transliteration, "CYA", "CYB", ... their capitals ("cyI"   *)
(*           is U+0438, which is also the Russian word for "and")          *)
(* Positions are 1-based (Python's are 0-based); a half-open Python span   *)
(* [a, b) is kept as the pair of 1-based positions a+1 and b+1.            *)
(***************************************************************************)
EXTENDS Integers, Sequences, FiniteSets, TLC

\* ------------------------------------------------------------------------
\* Characters and the str methods the parser uses
\* ------------------------------------------------------------------------

\* Unicode whitespace (str.strip, str.split, the regex class \s).
IsSpace(c) == c \in {" ", "NL", "NNBSP"}

\* The regex class \d.
IsDigit(c) == c \in {"0", "1", "2", "3", "4", "5", "6", "7", "8", "9"}

\* The letters with two cases: Latin, and the Cyrillic letters in use
\* ("CYA" is the capital of "cyA", and so on).
UpperCase == <<"A", "B", "C", "D", "E", "F", "G", "H", "I", "J", "K", "L", "M",
               "N", "O", "P", "Q", "R", "S", "T", "U", "V", "W", "X", "Y", "Z",
               "CYA", "CYB", "CYV", "CYG", "CYD", "CYE", "CYI", "CYJ", "CYK",
               "CYL", "CYM", "CYN", "CYO", "CYP", "CYR", "CYS", "CYT", "CYF",
               "CYC", "CYCH", "CYEH", "CYH">>

LowerCase == <<"a", "b", "c", "d", "e", "f", "g", "h", "i", "j", "k", "l", "m",
               "n", "o", "p", "q", "r", "s", "t", "u", "v", "w", "x", "y", "z",
               "cyA", "cyB", "cyV", "cyG", "cyD", "cyE", "cyI", "cyJ", "cyK",
               "cyL", "cyM", "cyN", "cyO", "cyP", "cyR", "cyS", "cyT", "cyF",
               "cyC", "cyCh", "cyEh", "cyH">>

\* str.lower on one character.
Lower(c) ==
  IF \E i \in 1..Len(UpperCase) : UpperCase[i] = c
  THEN LowerCase[CHOOSE i \in 1..Len(UpperCase) : UpperCase[i] = c]
  ELSE c

\* The class [0-9a-zA-Z\u0410-\u042F\u0430-\u044F] of _normalize_header_text.
IsHeaderAlnum(c) ==
  \/ IsDigit(c)
  \/ \E i \in 1..Len(UpperCase) : UpperCase[i] = c \/ LowerCase[i] = c

\* The two code point ranges of EMOJI_RE.
IsEmoji(c) == c = "EMOJI"

\* s[a..b] with 1-based inclusive ends, empty when a > b.
Slice(s, a, b) == IF a > b THEN <<>> ELSE SubSeq(s, a, b)

\* The first position p >= from with ~IsSpace(s[p]), or Len(s)+1.
RECURSIVE SkipSpace(_, _)
SkipSpace(s, from) ==
  IF from > Len(s) THEN Len(s) + 1
  ELSE IF IsSpace(s[from]) THEN SkipSpace(s, from + 1)
  ELSE from

\* The last position p <= upto with ~IsSpace(s[p]), or 0.
RECURSIVE SkipSpaceBack(_, _)
SkipSpaceBack(s, upto) ==
  IF upto < 1 THEN 0
  ELSE IF IsSpace(s[upto]) THEN SkipSpaceBack(s, upto - 1)
  ELSE upto

\* str.strip()
Strip(s) == Slice(s, SkipSpace(s, 1), SkipSpaceBack(s, Len(s)))

\* str.strip(chars) for a set of characters.
RECURSIVE LStripChars(_, _)
LStripChars(s, chars) ==
  IF s # <<>> /\ Head(s) \in chars THEN LStripChars(Tail(s), chars) ELSE s

RECURSIVE RStripChars(_, _)
RStripChars(s, chars) ==
  IF s # <<>> /\ s[Len(s)] \in chars
  THEN RStripChars(Slice(s, 1, Len(s) - 1), chars)
  ELSE s

StripChars(s, chars) == RStripChars(LStripChars(s, chars), chars)

\* str.split(sep) for a one-character separator: empty pieces are kept.
RECURSIVE SplitOn(_, _)
SplitOn(s, sep) ==
  IF \E i \in 1..Len(s) : s[i] = sep
  THEN LET i == CHOOSE j \in 1..Len(s) : s[j] = sep /\ \A k \in 1..(j - 1) : s[k] # sep
       IN <<Slice(s, 1, i - 1)>> \o SplitOn(Slice(s, i + 1, Len(s)), sep)
  ELSE <<s>>

\* str.splitlines(): like split on line feeds, but a final line feed opens no
\* further line and the empty text has no line.
SplitLines(s) ==
  IF s = <<>> THEN <<>>
  ELSE IF s[Len(s)] = "NL" THEN SplitOn(Slice(s, 1, Len(s) - 1), "NL")
  ELSE SplitOn(s, "NL")

\* str.split(): the maximal runs of non-whitespace characters.
RECURSIVE SplitWs(_)
SplitWs(s) ==
  LET a == SkipSpace(s, 1) IN
  IF a > Len(s) THEN <<>>
  ELSE LET b == IF \E j \in a..Len(s) : IsSpace(s[j])
                THEN (CHOOSE j \in a..Len(s) :
                        IsSpace(s[j]) /\ \A k \in a..(j - 1) : ~IsSpace(s[k])) - 1
                ELSE Len(s)
       IN <<Slice(s, a, b)>> \o SplitWs(Slice(s, b + 1, Len(s)))

\* sep.join(parts)
RECURSIVE Join(_, _)
Join(parts, sep) ==
  IF parts = <<>> THEN <<>>
  ELSE IF Len(parts) = 1 THEN parts[1]
  ELSE parts[1] \o sep \o Join(Tail(parts), sep)

\* " ".join(s.split())
CollapseSpaces(s) == Join(SplitWs(s), <<" ">>)

\* str.replace(c + c, ""): the non-overlapping pairs, left to right.
RECURSIVE RemovePairs(_, _)
RemovePairs(s, c) ==
  IF Len(s) < 2 THEN s
  ELSE IF s[1] = c /\ s[2] = c THEN RemovePairs(Slice(s, 3, Len(s)), c)
  ELSE <<s[1]>> \o RemovePairs(Tail(s), c)

\* str.replace(old, new) for single characters.
ReplaceChar(s, old, new) == [i \in 1..Len(s) |-> IF s[i] = old THEN new ELSE s[i]]

\* str.replace(c, "") for a single character.
RECURSIVE RemoveChar(_, _)
RemoveChar(s, c) ==
  IF s = <<>> THEN <<>>
  ELSE IF Head(s) = c THEN RemoveChar(Tail(s), c)
  ELSE <<Head(s)>> \o RemoveChar(Tail(s), c)

\* sub in s
Contains(s, sub) ==
  \E i \in 0..(Len(s) - Len(sub)) : \A k \in 1..Len(sub) : s[i + k] = sub[k]

\* re.sub(r"\s+", " ", s): every whitespace run becomes one space.
RECURSIVE SquashSpaces(_)
SquashSpaces(s) ==
  IF s = <<>> THEN <<>>
  ELSE IF IsSpace(s[1])
  THEN <<" ">> \o SquashSpaces(Slice(s, SkipSpace(s, 1), Len(s)))
  ELSE <<s[1]>> \o SquashSpaces(Tail(s))

\* The position of the first line feed at or after from, or Len(s)+1.
RECURSIVE LineEnd(_, _)
LineEnd(s, from) ==
  IF from > Len(s) THEN Len(s) + 1
  ELSE IF s[from] = "NL" THEN from
  ELSE LineEnd(s, from + 1)

\* Python's None, for an optional text and for an optional column index.
None == <<"None">>
NoIndex == -1

\* ------------------------------------------------------------------------
\* The helpers nested in parse_agent_output
\* ------------------------------------------------------------------------

_strip_markdown(text) ==
  LET cleaned == RemoveChar(RemovePairs(RemovePairs(text, "*"), "_"), "BT")
      dashed  == ReplaceChar(ReplaceChar(cleaned, "EN", "-"), "EM", "-")
  IN CollapseSpaces(dashed)

\* EMOJI_RE.sub("", raw)
RECURSIVE RemoveEmoji(_)
RemoveEmoji(s) ==
  IF s = <<>> THEN <<>>
  ELSE IF IsEmoji(Head(s)) THEN RemoveEmoji(Tail(s))
  ELSE <<Head(s)>> \o RemoveEmoji(Tail(s))

_clean_region_name(raw) == CollapseSpaces(Strip(RemoveEmoji(raw)))

\* The class [\u2013\u2014-] of SCENARIO_RE.
IsDash(c) == c \in {"EN", "EM", "-"}

\* The tail \s*[dash]\s*(.+) of SCENARIO_RE tried at position from: the text
\* of group 2, or <<>> when the tail does not match (group 2 is never empty).
\* When only whitespace follows the dash, \s* gives characters back until
\* (.+) finds one that is not a line feed.
ScenarioGroup2(s, from) ==
  LET d == SkipSpace(s, from) IN
  IF d > Len(s) \/ ~IsDash(s[d]) THEN <<>>
  ELSE LET g == SkipSpace(s, d + 1)
           K == {k \in (d + 1)..Len(s) : s[k] # "NL"}
       IN IF g <= Len(s) THEN Slice(s, g, LineEnd(s, g) - 1)
          ELSE IF K = {} THEN <<>>
          ELSE LET k == CHOOSE x \in K : \A y \in K : y <= x
               IN Slice(s, k, LineEnd(s, k) - 1)

\* The positions j of a closing ** for an opening ** at i, such that the
\* whole of SCENARIO_RE matches with group 1 = s[i+2 .. j-1].
ScenarioCloses(s, i) ==
  {j \in (i + 3)..(Len(s) - 1) :
     /\ s[j] = "*" /\ s[j + 1] = "*"
     /\ \A k \in (i + 2)..(j - 1) : s[k] # "NL"
     /\ ScenarioGroup2(s, j + 2) # <<>>}

\* The positions where SCENARIO_RE matches.
ScenarioStarts(s) ==
  {i \in 1..(Len(s) - 1) : s[i] = "*" /\ s[i + 1] = "*" /\ ScenarioCloses(s, i) # {}}

\* SCENARIO_RE.search(cell): <<group 1, group 2>> of the leftmost match with
\* the shortest group 1 (.+? is lazy), or <<>> for no match.
ScenarioSearch(s) ==
  IF ScenarioStarts(s) = {} THEN <<>>
  ELSE LET i == CHOOSE x \in ScenarioStarts(s) : \A y \in ScenarioStarts(s) : x <= y
           j == CHOOSE x \in ScenarioCloses(s, i) : \A y \in ScenarioCloses(s, i) : x <= y
       IN <<Slice(s, i + 2, j - 1), ScenarioGroup2(s, j + 2)>>

\* DashSplitOnce splitting at the last hyphen.
DashSplitLast(s) ==
  IF \E i \in 1..Len(s) : s[i] = "-"
  THEN LET d == CHOOSE i \in 1..Len(s) : s[i] = "-" /\ \A k \in (i + 1)..Len(s) : s[k] # "-"
       IN <<Slice(s, 1, SkipSpaceBack(s, d - 1)), Slice(s, SkipSpace(s, d + 1), Len(s))>>
  ELSE <<s>>

\* re.split(r"\s*-\s*", s, maxsplit=1): split at the first hyphen, with the
\* whitespace around it.
DashSplitOnce(s) ==
  IF \E i \in 1..Len(s) : s[i] = "-"
  THEN LET d == CHOOSE i \in 1..Len(s) : s[i] = "-" /\ \A k \in 1..(i - 1) : s[k] # "-"
       IN <<Slice(s, 1, SkipSpaceBack(s, d - 1)), Slice(s, SkipSpace(s, d + 1), Len(s))>>
  ELSE <<s>>

\* _extract_title_and_summary without the search for SCENARIO_RE.
ExtractWithoutPattern(cell) ==
  LET parts == DashSplitOnce(_strip_markdown(cell))
  IN IF Len(parts) = 2 THEN <<Strip(parts[1]), Strip(parts[2])>>
     ELSE <<_strip_markdown(cell), <<>> >>

\* Returns <<title, summary>>.
_extract_title_and_summary(cell) ==
  LET match == ScenarioSearch(cell) IN
  IF match # <<>>
  THEN <<_strip_markdown(match[1]), Strip(match[2])>>
  ELSE LET stripped == _strip_markdown(cell)
           parts    == DashSplitOnce(stripped)
       IN IF Len(parts) = 2
          THEN <<Strip(parts[1]), Strip(parts[2])>>
          ELSE <<stripped, <<>> >>

\* DRIVER_SPLIT_RE tried at position p: 0 for no match, else the position
\* after the match.  With w the end of the whitespace run at p, the leading \s*
\* takes the whole run before a one-character delimiter, and all of it but a
\* final plain space before the words " i " and " and " (any letter case).
DriverDelimEnd(s, p) ==
  LET w == SkipSpace(s, p) IN
  IF w > Len(s) THEN 0
  ELSE IF s[w] \in {"+", ",", ";", "/"} THEN SkipSpace(s, w + 1)
  ELSE IF w > p /\ s[w - 1] = " "
  THEN IF Lower(s[w]) = "cyI" /\ w + 1 <= Len(s) /\ s[w + 1] = " "
       THEN SkipSpace(s, w + 2)
       ELSE IF /\ w + 3 <= Len(s)
               /\ Lower(s[w]) = "a" /\ Lower(s[w + 1]) = "n" /\ Lower(s[w + 2]) = "d"
               /\ s[w + 3] = " "
       THEN SkipSpace(s, w + 4)
       ELSE 0
  ELSE 0

\* DRIVER_SPLIT_RE.split(s): the pieces between the leftmost matches.
RECURSIVE DriverSplit(_)
DriverSplit(s) ==
  LET P == {p \in 1..Len(s) : DriverDelimEnd(s, p) # 0} IN
  IF P = {} THEN <<s>>
  ELSE LET p == CHOOSE x \in P : \A y \in P : x <= y
       IN <<Slice(s, 1, p - 1)>> \o DriverSplit(Slice(s, DriverDelimEnd(s, p), Len(s)))

\* [c for c in candidates if c]
RECURSIVE NonEmpty(_)
NonEmpty(items) ==
  IF items = <<>> THEN <<>>
  ELSE IF Head(items) = <<>> THEN NonEmpty(Tail(items))
  ELSE <<Head(items)>> \o NonEmpty(Tail(items))

\* _parse_technology_drivers without the final filter on empty candidates.
ParseDriversUnfiltered(cell) ==
  IF cell = <<>> THEN <<>>
  ELSE LET pieces == DriverSplit(ReplaceChar(cell, "NNBSP", " "))
       IN [i \in 1..Len(pieces) |-> StripChars(SquashSpaces(pieces[i]), {" ", "."})]

_parse_technology_drivers(cell) ==
  IF cell = <<>> THEN <<>>
  ELSE LET normalized == ReplaceChar(cell, "NNBSP", " ")
           pieces     == DriverSplit(normalized)
           candidates == [i \in 1..Len(pieces) |->
                            StripChars(SquashSpaces(pieces[i]), {" ", "."})]
       IN NonEmpty(candidates)

\* _build_effects without the check for an empty note.
BuildEffectsAlways(effect_text) ==
  << [effect_type |-> "text_note", value_numeric |-> None,
      currency |-> None, period_note |-> _strip_markdown(effect_text)] >>

\* _build_effects keeping the effect text as it is written.
BuildEffectsRaw(effect_text) ==
  IF _strip_markdown(effect_text) = <<>> THEN <<>>
  ELSE << [effect_type |-> "text_note", value_numeric |-> None,
           currency |-> None, period_note |-> effect_text] >>

_build_effects(effect_text) ==
  LET cleaned == _strip_markdown(effect_text) IN
  IF cleaned = <<>> THEN <<>>
  ELSE << [effect_type |-> "text_note", value_numeric |-> None,
           currency |-> None, period_note |-> cleaned] >>

\* re.sub(r"[^0-9a-zA-Z...]+", " ", s): every run of other characters
\* becomes one space.
RECURSIVE BlankNonAlnum(_)
BlankNonAlnum(s) ==
  IF s = <<>> THEN <<>>
  ELSE IF IsHeaderAlnum(s[1]) THEN <<s[1]>> \o BlankNonAlnum(Tail(s))
  ELSE IF Len(s) >= 2 /\ ~IsHeaderAlnum(s[2]) THEN BlankNonAlnum(Tail(s))
  ELSE <<" ">> \o BlankNonAlnum(Tail(s))

_normalize_header_text(header) ==
  LET lowered == [i \in 1..Len(header) |-> Lower(header[i])]
  IN Strip(SquashSpaces(BlankNonAlnum(lowered)))

\* _find_column_index taking the last header that holds a keyword.
FindLastColumnIndex(headers, keywords) ==
  LET hits == {i \in 1..Len(headers) :
                 \E k \in 1..Len(keywords) : Contains(headers[i], keywords[k])}
  IN IF hits = {} THEN NoIndex
     ELSE (CHOOSE i \in hits : \A j \in hits : i >= j) - 1

\* The 0-based index of the first header holding one of the keywords.
_find_column_index(headers, keywords) ==
  LET hits == {i \in 1..Len(headers) :
                 \E k \in 1..Len(keywords) : Contains(headers[i], keywords[k])}
  IN IF hits = {} THEN NoIndex
     ELSE (CHOOSE i \in hits : \A j \in hits : i <= j) - 1

\* idx is 0-based, as in the source.
_safe_get(cells, idx) ==
  IF idx = NoIndex \/ idx < 0 \/ idx >= Len(cells) THEN <<>> ELSE cells[idx + 1]

\* INDEX_CELL_RE.match(cell): ^\d+(\.\d+)?$, where $ also matches before a
\* final line feed.
IndexCellMatch(cell) ==
  LET s    == IF cell # <<>> /\ cell[Len(cell)] = "NL"
              THEN Slice(cell, 1, Len(cell) - 1) ELSE cell
      dots == {i \in 1..Len(s) : s[i] = "."}
  IN
  /\ s # <<>>
  /\ \A i \in 1..Len(s) : IsDigit(s[i]) \/ s[i] = "."
  /\ Cardinality(dots) <= 1
  /\ \A i \in dots : 1 < i /\ i < Len(s)

\* ------------------------------------------------------------------------
\* Section segmentation: SECTION_HEADER_RE = ^\s*##+\s+(.+)$ (MULTILINE)
\* ------------------------------------------------------------------------

\* p is a position where ^ matches.
IsLineStart(s, p) == p = 1 \/ (p >= 2 /\ p <= Len(s) + 1 /\ s[p - 1] = "NL")

\* The first position >= from that holds no "#", or Len(s)+1.
RECURSIVE SkipHash(_, _)
SkipHash(s, from) ==
  IF from > Len(s) THEN Len(s) + 1
  ELSE IF s[from] = "#" THEN SkipHash(s, from + 1)
  ELSE from

\* Where group 1 starts when SECTION_HEADER_RE is tried at line start p, or 0
\* when it does not match there.  \s matches line feeds, so both \s* and
\* \s+ run over line ends; (.+) stays on one line.  When only whitespace
\* follows the hashes, \s+ gives characters back until (.+) finds one that is
\* not a line feed.
HeadingGroupStart(s, p) ==
  LET q == SkipSpace(s, p)
      r == SkipHash(s, q)
      t == SkipSpace(s, r)
      K == {k \in (r + 1)..Len(s) : s[k] # "NL"}
  IN IF ~(q + 1 <= Len(s) /\ s[q] = "#" /\ s[q + 1] = "#") THEN 0
     ELSE IF ~(r <= Len(s) /\ IsSpace(s[r])) THEN 0
     ELSE IF t <= Len(s) THEN t
     ELSE IF K = {} THEN 0
     ELSE CHOOSE x \in K : \A y \in K : y <= x

\* list(SECTION_HEADER_RE.finditer(s)), searching from position from: each
\* match as [start, stop, group1], stop being the position after the match.
RECURSIVE FindSections(_, _)
FindSections(s, from) ==
  LET P == {p \in from..Len(s) : IsLineStart(s, p) /\ HeadingGroupStart(s, p) # 0} IN
  IF P = {} THEN <<>>
  ELSE LET p == CHOOSE x \in P : \A y \in P : x <= y
           g == HeadingGroupStart(s, p)
           e == LineEnd(s, g)
       IN << [start |-> p, stop |-> e, group1 |-> Slice(s, g, e - 1)] >>
            \o FindSections(s, e)

\* agent_output[start:end] for the section at index k (1-based) of matches.
SectionBody(s, matches, k) ==
  Slice(s, matches[k].stop,
        IF k + 1 <= Len(matches) THEN matches[k + 1].start - 1 ELSE Len(s))

\* ln.strip().startswith("|")
IsTableLine(ln) == Strip(ln) # <<>> /\ Strip(ln)[1] = "|"

TableLines(body) == SelectSeq(SplitLines(body), IsTableLine)

\* The 1-based position of the first table line holding "| # ", or 0 (None).
HeaderIdx(table_lines) ==
  LET H == {i \in 1..Len(table_lines) : Contains(table_lines[i], <<"|", " ", "#", " ">>)}
  IN IF H = {} THEN 0 ELSE CHOOSE i \in H : \A j \in H : i <= j

\* [cell.strip() for cell in line.strip().strip("|").split("|")]
SplitCells(line) ==
  LET raw == SplitOn(StripChars(Strip(line), {"|"}), "|")
  IN [i \in 1..Len(raw) |-> Strip(raw[i])]

\* "---" not in ln and ln.strip().strip("|")
IsDataLine(ln) ==
  /\ ~Contains(ln, <<"-", "-", "-">>)
  /\ StripChars(Strip(ln), {"|"}) # <<>>

\* The table lines after position after (0 keeps them all) that are data lines.
DataLinesAfter(table_lines, after) ==
  SelectSeq(Slice(table_lines, after + 1, Len(table_lines)), IsDataLine)

\* The keyword lists of the five column roles.
SectorKeywords ==
  << <<"cyS", "cyE", "cyK", "cyT", "cyO", "cyR">>,
     <<"s", "e", "c", "t", "o", "r">> >>

ScenarioKeywords ==
  << <<"cyS", "cyC", "cyE", "cyN", "cyA", "cyR", "cyI", "cyJ">>,
     <<"cyO", "cyP", "cyI", "cyS", "cyA", "cyN", "cyI", "cyE">>,
     <<"s", "c", "e", "n", "a", "r", "i", "o">>,
     <<"d", "e", "s", "c", "r", "i", "p", "t", "i", "o", "n">> >>

EffectKeywords ==
  << <<"cyEh", "cyK", "cyO", "cyN", "cyO", "cyM">>,
     <<"cyEh", "cyF", "cyF", "cyE", "cyK", "cyT">>,
     <<"e", "f", "f", "e", "c", "t">> >>

DriversKeywords ==
  << <<"cyD", "cyR", "cyA", "cyJ", "cyV", "cyE", "cyR">>,
     <<"d", "r", "i", "v", "e", "r">>,
     <<"cyT", "cyE", "cyH", "cyN", "cyO", "cyL", "cyO", "cyG">> >>

SourceKeywords ==
  << <<"cyI", "cyS", "cyT", "cyO", "cyCh", "cyN", "cyI", "cyK">>,
     <<"cyO", "cyB", "cyO", "cyS", "cyN", "cyO", "cyV", "cyA", "cyN">>,
     <<"s", "o", "u", "r", "c", "e">>,
     <<"r", "e", "f", "e", "r", "e", "n", "c", "e">> >>

\* PositionalColumns with a drivers column after the source column.
PositionalColumnsWithDrivers(table_lines) ==
  [header_idx |-> 0,
   sector_idx |-> 1, scenario_idx |-> 2, effect_idx |-> 3,
   drivers_idx |-> 5, source_idx |-> 4,
   data_lines |-> DataLinesAfter(table_lines, 0)]

\* The roles of a table without a header row: fixed positions, no drivers.
PositionalColumns(table_lines) ==
  [header_idx |-> 0,
   sector_idx |-> 1, scenario_idx |-> 2, effect_idx |-> 3,
   drivers_idx |-> NoIndex, source_idx |-> 4,
   data_lines |-> DataLinesAfter(table_lines, 0)]

\* The column roles of one section: [header_idx, sector_idx, scenario_idx,
\* effect_idx, drivers_idx, source_idx, data_lines].  header_idx is the
\* 1-based position of the header row among the table lines, 0 for None; the
\* column indices are 0-based as in the source, NoIndex for None.
ResolveColumns(table_lines) ==
  LET header_idx == HeaderIdx(table_lines) IN
  IF header_idx = 0
  THEN PositionalColumns(table_lines)
  ELSE LET header_cells == SplitCells(table_lines[header_idx])
           normalized_headers ==
             [i \in 1..Len(header_cells) |-> _normalize_header_text(header_cells[i])]
       IN [header_idx |-> header_idx,
           sector_idx   |-> _find_column_index(normalized_headers, SectorKeywords),
           scenario_idx |-> _find_column_index(normalized_headers, ScenarioKeywords),
           effect_idx   |-> _find_column_index(normalized_headers, EffectKeywords),
           drivers_idx  |-> _find_column_index(normalized_headers, DriversKeywords),
           source_idx   |-> _find_column_index(normalized_headers, SourceKeywords),
           data_lines   |-> DataLinesAfter(table_lines, header_idx)]

\* Unresolved without the effect role.
UnresolvedButEffect(cols) ==
  cols.sector_idx = NoIndex \/ cols.scenario_idx = NoIndex

\* None in (sector_idx, scenario_idx, effect_idx)
Unresolved(cols) ==
  cols.sector_idx = NoIndex \/ cols.scenario_idx = NoIndex \/ cols.effect_idx = NoIndex

\* RowNotIndexed that only rejects a row without a first cell.
RowNotIndexedEmptyOnly(line) == _safe_get(SplitCells(line), 0) = <<>>

\* not INDEX_CELL_RE.match(_safe_get(cells, 0))
RowNotIndexed(line) == ~IndexCellMatch(_safe_get(SplitCells(line), 0))

\* not scenario_cell
RowNoScenario(line, cols) == _safe_get(SplitCells(line), cols.scenario_idx) = <<>>

\* BuildPayload without the effect note standing in for an empty summary.
BuildPayloadNoFallback(line, region_name, cols) ==
  LET cells       == SplitCells(line)
      ts          == _extract_title_and_summary(_safe_get(cells, cols.scenario_idx))
      effect_cell == _safe_get(cells, cols.effect_idx)
      driver_cell == _safe_get(cells, cols.drivers_idx)
      source_note == _strip_markdown(_safe_get(cells, cols.source_idx))
  IN [case |-> [region_name     |-> region_name,
                sector_name     |-> _strip_markdown(_safe_get(cells, cols.sector_idx)),
                title           |-> ts[1],
                summary         |-> ts[2],
                detailed_notes  |-> IF source_note # <<>> THEN source_note ELSE None,
                key_effect_note |-> _strip_markdown(effect_cell)],
      economic_effects   |-> _build_effects(effect_cell),
      technology_drivers |-> IF cols.drivers_idx # NoIndex /\ driver_cell # <<>>
                             THEN _parse_technology_drivers(driver_cell) ELSE <<>>]

\* BuildPayload with the stripped source cell as detailed_notes, empty or not.
BuildPayloadEmptyNotes(line, region_name, cols) ==
  LET cells       == SplitCells(line)
      ts          == _extract_title_and_summary(_safe_get(cells, cols.scenario_idx))
      effect_cell == _safe_get(cells, cols.effect_idx)
      driver_cell == _safe_get(cells, cols.drivers_idx)
      effect_note == _strip_markdown(effect_cell)
  IN [case |-> [region_name     |-> region_name,
                sector_name     |-> _strip_markdown(_safe_get(cells, cols.sector_idx)),
                title           |-> ts[1],
                summary         |-> IF ts[2] # <<>> THEN ts[2] ELSE effect_note,
                detailed_notes  |-> _strip_markdown(_safe_get(cells, cols.source_idx)),
                key_effect_note |-> effect_note],
      economic_effects   |-> _build_effects(effect_cell),
      technology_drivers |-> IF cols.drivers_idx # NoIndex /\ driver_cell # <<>>
                             THEN _parse_technology_drivers(driver_cell) ELSE <<>>]

\* The payload appended for one accepted data line.
BuildPayload(line, region_name, cols) ==
  LET cells         == SplitCells(line)
      sector_name   == _strip_markdown(_safe_get(cells, cols.sector_idx))
      scenario_cell == _safe_get(cells, cols.scenario_idx)
      effect_cell   == _safe_get(cells, cols.effect_idx)
      driver_cell   == _safe_get(cells, cols.drivers_idx)
      source_cell   == _safe_get(cells, cols.source_idx)
      ts            == _extract_title_and_summary(scenario_cell)
      effect_note   == _strip_markdown(effect_cell)
      source_note   == _strip_markdown(source_cell)
      technology_drivers ==
        IF cols.drivers_idx # NoIndex /\ driver_cell # <<>>
        THEN _parse_technology_drivers(driver_cell)
        ELSE <<>>
  IN [case |-> [region_name     |-> region_name,
                sector_name     |-> sector_name,
                title           |-> ts[1],
                summary         |-> IF ts[2] # <<>> THEN ts[2] ELSE effect_note,
                detailed_notes  |-> IF source_note # <<>> THEN source_note ELSE None,
                key_effect_note |-> effect_note],
      economic_effects   |-> _build_effects(effect_cell),
      technology_drivers |-> technology_drivers]

\* The payloads of the data lines from position i on, in order.
RECURSIVE RowPayloads(_, _, _, _)
RowPayloads(data_lines, i, region_name, cols) ==
  IF i > Len(data_lines) THEN <<>>
  ELSE (IF RowNotIndexed(data_lines[i]) \/ RowNoScenario(data_lines[i], cols)
        THEN <<>>
        ELSE <<BuildPayload(data_lines[i], region_name, cols)>>)
       \o RowPayloads(data_lines, i + 1, region_name, cols)

\* The region name of the section at index k of matches.
RegionName(matches, k) == _clean_region_name(Strip(matches[k].group1))

\* The payloads of the sections from index k on.
RECURSIVE SectionPayloads(_, _, _)
SectionPayloads(s, matches, k) ==
  IF k > Len(matches) THEN <<>>
  ELSE LET table_lines == TableLines(SectionBody(s, matches, k))
           cols        == ResolveColumns(table_lines)
       IN (IF table_lines = <<>> \/ Unresolved(cols) THEN <<>>
           ELSE RowPayloads(cols.data_lines, 1, RegionName(matches, k), cols))
          \o SectionPayloads(s, matches, k + 1)

\* The value parse_agent_output returns for the whole text.
ParseResult(s) == SectionPayloads(s, FindSections(s, 1), 1)

\* ------------------------------------------------------------------------
\* The state: call frames of parse_agent_output
\* ------------------------------------------------------------------------

VARIABLES
  inputs,   \* the texts the callers may pass to parse_agent_output
  budget,   \* how many more calls the callers make
  frame,    \* frame[c]: the local variables of caller c's current call
  results,  \* the <<agent_output, returned payloads>> pairs, in order of return
  database, \* the committed rows of the tables
  sequences,\* the last value each primary-key sequence gave out
  session,  \* session[s]: a run of _persist_cases with its database session
  fault,    \* whether the database has failed a statement
  cleaner   \* a call of CaseCleaner.clean_cases: its object, arguments and locals

vars == <<inputs, budget, frame, results, database, sequences, session, fault, cleaner>>

\* What the parser never touches, and what the persistence layer never touches.
repo_vars == <<database, sequences, session, fault>>
parser_vars == <<frame, results>>

\* The column roles before a section has resolved them.
NoCols ==
  [header_idx |-> 0, sector_idx |-> NoIndex, scenario_idx |-> NoIndex,
   effect_idx |-> NoIndex, drivers_idx |-> NoIndex, source_idx |-> NoIndex,
   data_lines |-> <<>>]

\* A caller that has not called yet.  pc is the position in the function:
\* "idle" (no call), "sections" (at the head of the loop over section_matches),
\* "rows" (at the head of the loop over data_lines), "done" (returned).
\* origin and visited are history: origin[k] tells where payloads[k] came
\* from, visited lists the <<section, data line>> pairs the row loop reached.
IdleFrame ==
  [pc |-> "idle", agent_output |-> <<>>, section_matches |-> <<>>, idx |-> 0,
   region_name |-> <<>>, cols |-> NoCols, line_no |-> 0,
   payloads |-> <<>>, origin |-> <<>>, visited |-> <<>>]

\* EnterCall with a payloads list that outlives the call.
EnterCallKeepingPayloads(old, text) ==
  [IdleFrame EXCEPT !.pc = "sections", !.agent_output = text,
                    !.section_matches = FindSections(text, 1), !.idx = 1,
                    !.payloads = old.payloads, !.origin = old.origin]

\* The frame on entry: payloads = [] and the list of section matches.
EnterCall(old, text) ==
  [IdleFrame EXCEPT !.pc = "sections", !.agent_output = text,
                    !.section_matches = FindSections(text, 1), !.idx = 1]

\* A caller calls parse_agent_output(text).
Call(c) ==
  /\ frame[c].pc \in {"idle", "done"}
  /\ budget > 0
  /\ \E text \in inputs : frame' = [frame EXCEPT ![c] = EnterCall(frame[c], text)]
  /\ budget' = budget - 1
  /\ UNCHANGED <<inputs, results>>
  /\ UNCHANGED repo_vars
  /\ UNCHANGED cleaner

\* The table lines and the column roles of the section the loop is at.
CurrentTable(f) == TableLines(SectionBody(f.agent_output, f.section_matches, f.idx))
CurrentCols(f) == ResolveColumns(CurrentTable(f))

AtSection(f) == f.pc = "sections" /\ f.idx <= Len(f.section_matches)

\* "continue" in the loop over section_matches.
NextSection(f) ==
  [f EXCEPT !.idx = f.idx + 1, !.pc = "sections", !.line_no = 0,
            !.region_name = RegionName(f.section_matches, f.idx)]

\* if not table_lines: continue
SectionWithoutTable(f) == AtSection(f) /\ CurrentTable(f) = <<>>

SkipSectionWithoutTable(c) ==
  /\ SectionWithoutTable(frame[c])
  /\ frame' = [frame EXCEPT ![c] = NextSection(frame[c])]
  /\ UNCHANGED <<inputs, budget, results>>
  /\ UNCHANGED repo_vars
  /\ UNCHANGED cleaner

\* if None in (sector_idx, scenario_idx, effect_idx): continue
SectionUnresolved(f) ==
  AtSection(f) /\ CurrentTable(f) # <<>> /\ Unresolved(CurrentCols(f))

SkipUnresolvedSection(c) ==
  /\ SectionUnresolved(frame[c])
  /\ frame' = [frame EXCEPT ![c] = [NextSection(frame[c]) EXCEPT !.cols = CurrentCols(frame[c])]]
  /\ UNCHANGED <<inputs, budget, results>>
  /\ UNCHANGED repo_vars
  /\ UNCHANGED cleaner

\* The section has a table and its roles are resolved: enter the loop over
\* data_lines, which ends at once when there is no data line.
EnterRows(f) ==
  LET cols == CurrentCols(f) IN
  IF cols.data_lines = <<>>
  THEN [NextSection(f) EXCEPT !.cols = cols]
  ELSE [f EXCEPT !.pc = "rows", !.cols = cols, !.line_no = 1,
                 !.region_name = RegionName(f.section_matches, f.idx)]

SectionResolved(f) ==
  AtSection(f) /\ CurrentTable(f) # <<>> /\ ~Unresolved(CurrentCols(f))

ResolveSection(c) ==
  /\ SectionResolved(frame[c])
  /\ frame' = [frame EXCEPT ![c] = EnterRows(frame[c])]
  /\ UNCHANGED <<inputs, budget, results>>
  /\ UNCHANGED repo_vars
  /\ UNCHANGED cleaner

CurrentLine(f) == f.cols.data_lines[f.line_no]

\* "continue" in the loop over data_lines: the next data line, or the next
\* section after the last one.
NextRow(f) ==
  LET seen == [f EXCEPT !.visited = Append(f.visited, <<f.idx, f.line_no>>)] IN
  IF f.line_no < Len(f.cols.data_lines)
  THEN [seen EXCEPT !.line_no = f.line_no + 1]
  ELSE [seen EXCEPT !.idx = f.idx + 1, !.pc = "sections", !.line_no = 0]

\* SkipRow with "break" for "continue": the rest of the section is dropped.
SkipRowBreaks(f) ==
  [f EXCEPT !.visited = Append(f.visited, <<f.idx, f.line_no>>),
            !.idx = f.idx + 1, !.pc = "sections", !.line_no = 0]

\* A row that fails a check: "continue" in the loop over data_lines.
SkipRow(f) == NextRow(f)

\* if not INDEX_CELL_RE.match(_safe_get(cells, 0)): continue
AtRowNotIndexed(f) == f.pc = "rows" /\ RowNotIndexed(CurrentLine(f))

SkipRowNotIndexed(c) ==
  /\ AtRowNotIndexed(frame[c])
  /\ frame' = [frame EXCEPT ![c] = SkipRow(frame[c])]
  /\ UNCHANGED <<inputs, budget, results>>
  /\ UNCHANGED repo_vars
  /\ UNCHANGED cleaner

\* if not scenario_cell: continue
AtRowWithoutScenario(f) ==
  /\ f.pc = "rows"
  /\ ~RowNotIndexed(CurrentLine(f))
  /\ RowNoScenario(CurrentLine(f), f.cols)

SkipRowWithoutScenario(c) ==
  /\ AtRowWithoutScenario(frame[c])
  /\ frame' = [frame EXCEPT ![c] = SkipRow(frame[c])]
  /\ UNCHANGED <<inputs, budget, results>>
  /\ UNCHANGED repo_vars
  /\ UNCHANGED cleaner

\* Appended with one payloads list for all callers, kept by the first caller.
AppendedToSharedList(f) ==
  [f EXCEPT !.payloads = Append(frame[1].payloads, BuildPayload(CurrentLine(f), f.region_name, f.cols)),
            !.origin = Append(f.origin, [section |-> f.idx, line_no |-> f.line_no,
                                         line |-> CurrentLine(f), cols |-> f.cols])]

\* payloads.append({...})
Appended(f) ==
  [f EXCEPT !.payloads = Append(f.payloads, BuildPayload(CurrentLine(f), f.region_name, f.cols)),
            !.origin = Append(f.origin, [section |-> f.idx, line_no |-> f.line_no,
                                         line |-> CurrentLine(f), cols |-> f.cols])]

AtRowAccepted(f) ==
  /\ f.pc = "rows"
  /\ ~RowNotIndexed(CurrentLine(f))
  /\ ~RowNoScenario(CurrentLine(f), f.cols)

AppendPayload(c) ==
  /\ AtRowAccepted(frame[c])
  /\ frame' = [frame EXCEPT ![c] = NextRow(Appended(frame[c]))]
  /\ UNCHANGED <<inputs, budget, results>>
  /\ UNCHANGED repo_vars
  /\ UNCHANGED cleaner

\* return payloads
AtReturn(f) == f.pc = "sections" /\ f.idx > Len(f.section_matches)

Return(c) ==
  /\ AtReturn(frame[c])
  /\ frame' = [frame EXCEPT ![c].pc = "done"]
  /\ results' = Append(results, <<frame[c].agent_output, frame[c].payloads>>)
  /\ UNCHANGED <<inputs, budget>>
  /\ UNCHANGED repo_vars
  /\ UNCHANGED cleaner

\* The guard of Step: the frame has a step to take.
CanStep(f) ==
  \/ SectionWithoutTable(f) \/ SectionUnresolved(f) \/ SectionResolved(f)
  \/ AtRowNotIndexed(f) \/ AtRowWithoutScenario(f) \/ AtRowAccepted(f)
  \/ AtReturn(f)

\* One step of a call that is under way.
Step(c) ==
  \/ SkipSectionWithoutTable(c)
  \/ SkipUnresolvedSection(c)
  \/ ResolveSection(c)
  \/ SkipRowNotIndexed(c)
  \/ SkipRowWithoutScenario(c)
  \/ AppendPayload(c)
  \/ Return(c)

Next ==
  \/ \E c \in DOMAIN frame : Call(c)
  \/ \E c \in DOMAIN frame : SkipSectionWithoutTable(c)
  \/ \E c \in DOMAIN frame : SkipUnresolvedSection(c)
  \/ \E c \in DOMAIN frame : ResolveSection(c)
  \/ \E c \in DOMAIN frame : SkipRowNotIndexed(c)
  \/ \E c \in DOMAIN frame : SkipRowWithoutScenario(c)
  \/ \E c \in DOMAIN frame : AppendPayload(c)
  \/ \E c \in DOMAIN frame : Return(c)

\* ------------------------------------------------------------------------
\* Persistence: CaseRepository (src/data/case_repository.py) and
\* _persist_cases
\* ------------------------------------------------------------------------

\* The tables without rows.  regions, sectors and drivers hold rows
\* [id, name]; cases holds the case rows, links the rows of
\* case_technology_drivers and effects the rows of economic_effects.
EmptyTables ==
  [regions |-> {}, sectors |-> {}, drivers |-> {}, cases |-> {}, links |-> {},
   effects |-> {}]

\* The primary-key sequences before any insert.
NoSequences == [regions |-> 0, sectors |-> 0, drivers |-> 0, cases |-> 0, effects |-> 0]

\* What a session reads: the committed rows and those of its own transaction.
Visible(db, tx) == [t \in DOMAIN db |-> db[t] \cup tx[t]]

\* db.commit(): the rows of the transaction become committed rows.
Committed(db, tx) == Visible(db, tx)

\* A rollback that keeps the rows of the transaction.
RollbackThatCommits(db, tx) == Visible(db, tx)

\* db.rollback(): the rows of the transaction are dropped.
AfterRollback(db, tx) == db

\* A look-up that takes the first row of the table whatever its name.
FirstOfAny(rows, name) ==
  IF rows = {} THEN 0 ELSE (CHOOSE r \in rows : \A q \in rows : r.id <= q.id).id

\* query(...).filter_by(name=name).first(): the id of the row with the name,
\* or 0 for None.
FirstByName(rows, name) ==
  LET hits == {r \in rows : r.name = name}
  IN IF hits = {} THEN 0 ELSE (CHOOSE r \in hits : \A q \in hits : r.id <= q.id).id

\* An object of a reference table: the row found, or a new object, which has
\* no id (0) before the flush.  autoflush is off, so a query never sees a new
\* object that is not flushed yet.
NoRef == [id |-> 0, name |-> <<>>]

get_or_create_region(seen, name) == [id |-> FirstByName(seen.regions, name), name |-> name]

get_or_create_sector(seen, name) == [id |-> FirstByName(seen.sectors, name), name |-> name]

get_or_create_technology_drivers(seen, driver_names) ==
  [i \in 1..Len(driver_names) |->
     [id |-> FirstByName(seen.drivers, driver_names[i]), name |-> driver_names[i]]]

\* The ids the flush gives to the new objects of a list: the i-th new one
\* gets the i-th value after last.
RECURSIVE WithIds(_, _)
WithIds(refs, last) ==
  IF refs = <<>> THEN <<>>
  ELSE IF Head(refs).id = 0
  THEN <<[Head(refs) EXCEPT !.id = last + 1]>> \o WithIds(Tail(refs), last + 1)
  ELSE <<Head(refs)>> \o WithIds(Tail(refs), last)

\* The positions of the new objects of a list.
NewAt(refs) == {i \in 1..Len(refs) : refs[i].id = 0}

\* A run of _persist_cases that has not started.  pc is the position:
\* "idle", "loop" (at the head of the loop over the payloads), "region",
\* "sector", "drivers", "flush", "effects", "commit", "report" (inside
\* save_case), "except" (in its except block), "raised" (the exception is on
\* its way out of _persist_cases), "closed".  before and attempts are history:
\* the committed rows when the current save_case began, and one entry for
\* every save_case that ended.
IdleSession ==
  [pc |-> "idle", payloads |-> <<>>, k |-> 0,
   region |-> NoRef, sector |-> NoRef, technology_drivers |-> <<>>, case_id |-> 0,
   new_effects |-> <<>>, tx |-> EmptyTables,
   failed_at |-> "none", before |-> EmptyTables, attempts |-> <<>>]

\* The payload the loop is at.
Payload(sess) == sess.payloads[sess.k]

\* session = SessionLocal(); for payload in parse_agent_output(agent_output)
PersistCases(s) ==
  /\ session[s].pc = "idle"
  /\ budget > 0
  /\ \E text \in inputs :
       session' = [session EXCEPT ![s] =
                     [IdleSession EXCEPT !.pc = "loop", !.payloads = ParseResult(text), !.k = 1]]
  /\ budget' = budget - 1
  /\ UNCHANGED <<inputs, database, sequences, fault>>
  /\ UNCHANGED parser_vars
  /\ UNCHANGED cleaner

\* repo.save_case(...): the call, up to the first statement of create_case.
SaveCase(s) ==
  /\ session[s].pc = "loop"
  /\ session[s].k <= Len(session[s].payloads)
  /\ session' = [session EXCEPT ![s].pc = "region", ![s].before = database,
                                ![s].failed_at = "none", ![s].case_id = 0]
  /\ UNCHANGED <<inputs, budget, database, sequences, fault>>
  /\ UNCHANGED parser_vars
  /\ UNCHANGED cleaner

\* A statement fails in the database: the exception leads to the except block.
Fails(s, step) ==
  /\ ~fault
  /\ fault' = TRUE
  /\ session' = [session EXCEPT ![s].pc = "except", ![s].failed_at = step]
  /\ UNCHANGED <<database, sequences>>

GetOrCreateRegion(s) ==
  /\ session[s].pc = "region"
  /\ \/ Fails(s, "region")
     \/ /\ session' = [session EXCEPT
             ![s].region = get_or_create_region(Visible(database, session[s].tx),
                                                Payload(session[s]).case.region_name),
             ![s].pc = "sector"]
        /\ UNCHANGED <<database, sequences, fault>>
  /\ UNCHANGED <<inputs, budget>>
  /\ UNCHANGED parser_vars
  /\ UNCHANGED cleaner

GetOrCreateSector(s) ==
  /\ session[s].pc = "sector"
  /\ \/ Fails(s, "sector")
     \/ /\ session' = [session EXCEPT
             ![s].sector = get_or_create_sector(Visible(database, session[s].tx),
                                                Payload(session[s]).case.sector_name),
             ![s].pc = "drivers"]
        /\ UNCHANGED <<database, sequences, fault>>
  /\ UNCHANGED <<inputs, budget>>
  /\ UNCHANGED parser_vars
  /\ UNCHANGED cleaner

GetOrCreateTechnologyDrivers(s) ==
  /\ session[s].pc = "drivers"
  /\ \/ /\ Payload(session[s]).technology_drivers # <<>>
        /\ Fails(s, "drivers")
     \/ /\ session' = [session EXCEPT
             ![s].technology_drivers =
                get_or_create_technology_drivers(Visible(database, session[s].tx),
                                                 Payload(session[s]).technology_drivers),
             ![s].pc = "flush"]
        /\ UNCHANGED <<database, sequences, fault>>
  /\ UNCHANGED <<inputs, budget>>
  /\ UNCHANGED parser_vars
  /\ UNCHANGED cleaner

\* IntegrityError that only looks at the objects of the flush itself, not at
\* the rows that are there already.
IntegrityErrorWithinFlush(sess, seen) ==
  LET d == sess.technology_drivers IN
  \/ \E i, j \in NewAt(d) : i # j /\ d[i].name = d[j].name
  \/ \E i, j \in 1..Len(d) : i # j /\ d[i].id # 0 /\ d[i].id = d[j].id

\* The constraints the INSERTs of the flush violate: a unique name that is
\* there already or comes twice, or one case linked twice to one driver
\* (the primary key of case_technology_drivers).
IntegrityError(sess, seen) ==
  LET d == sess.technology_drivers IN
  \/ sess.region.id = 0 /\ \E r \in seen.regions : r.name = sess.region.name
  \/ sess.sector.id = 0 /\ \E r \in seen.sectors : r.name = sess.sector.name
  \/ \E i \in NewAt(d) : \E r \in seen.drivers : r.name = d[i].name
  \/ \E i, j \in NewAt(d) : i # j /\ d[i].name = d[j].name
  \/ \E i, j \in 1..Len(d) : i # j /\ d[i].id # 0 /\ d[i].id = d[j].id

\* The rows the flush inserts: the new reference rows, the case row and its
\* links to the drivers.
Flushed(sess, seqs) ==
  LET region  == WithIds(<<sess.region>>, seqs.regions)[1]
      sector  == WithIds(<<sess.sector>>, seqs.sectors)[1]
      drivers == WithIds(sess.technology_drivers, seqs.drivers)
      case_id == seqs.cases + 1
      c       == Payload(sess).case
  IN [regions |-> IF sess.region.id = 0 THEN {region} ELSE {},
      sectors |-> IF sess.sector.id = 0 THEN {sector} ELSE {},
      drivers |-> {drivers[i] : i \in NewAt(sess.technology_drivers)},
      cases   |-> {[id |-> case_id, region_id |-> region.id, sector_id |-> sector.id,
                    title |-> c.title, summary |-> c.summary,
                    detailed_notes |-> c.detailed_notes,
                    key_effect_note |-> c.key_effect_note]},
      links   |-> {[case_id |-> case_id, driver_id |-> drivers[i].id] : i \in 1..Len(drivers)},
      effects |-> {}]

\* The sequences after the flush.
SequencesAfterFlush(sess, seqs) ==
  [seqs EXCEPT !.regions = @ + (IF sess.region.id = 0 THEN 1 ELSE 0),
               !.sectors = @ + (IF sess.sector.id = 0 THEN 1 ELSE 0),
               !.drivers = @ + Cardinality(NewAt(sess.technology_drivers)),
               !.cases   = @ + 1]

\* The INSERT of a unique name waits while a transaction of another session
\* that is not ended yet has inserted a row with that name.
Waits(s) ==
  \E t \in DOMAIN session \ {s} :
    LET sess == session[s]
        tx   == session[t].tx
    IN \/ sess.region.id = 0 /\ \E r \in tx.regions : r.name = sess.region.name
       \/ sess.sector.id = 0 /\ \E r \in tx.sectors : r.name = sess.sector.name
       \/ \E i \in NewAt(sess.technology_drivers) :
            \E r \in tx.drivers : r.name = sess.technology_drivers[i].name

\* new_case = models.Case(...); self.db.add(new_case); self.db.flush().  A
\* flush that the database ends as the victim of a deadlock is one it fails.
FlushCase(s) ==
  /\ session[s].pc = "flush"
  /\ \/ Fails(s, "flush")
     \/ /\ ~Waits(s)
        /\ IntegrityError(session[s], Visible(database, session[s].tx))
        /\ session' = [session EXCEPT ![s].pc = "except", ![s].failed_at = "flush"]
        /\ UNCHANGED <<database, sequences, fault>>
     \/ /\ ~Waits(s)
        /\ ~IntegrityError(session[s], Visible(database, session[s].tx))
        /\ session' = [session EXCEPT
             ![s].tx = Visible(session[s].tx, Flushed(session[s], sequences)),
             ![s].case_id = sequences.cases + 1,
             ![s].pc = "effects"]
        /\ sequences' = SequencesAfterFlush(session[s], sequences)
        /\ UNCHANGED <<database, fault>>
  /\ UNCHANGED <<inputs, budget>>
  /\ UNCHANGED parser_vars
  /\ UNCHANGED cleaner

\* for effect_data in economic_effects_data: self.db.add(effect)
AddEffects(s) ==
  /\ session[s].pc = "effects"
  /\ session' = [session EXCEPT ![s].new_effects = Payload(session[s]).economic_effects,
                                ![s].pc = "commit"]
  /\ UNCHANGED <<inputs, budget, database, sequences, fault>>
  /\ UNCHANGED parser_vars
  /\ UNCHANGED cleaner

\* The effect rows the commit inserts.
EffectRows(sess, seqs) ==
  {[id |-> seqs.effects + i, case_id |-> sess.case_id,
    effect_type   |-> sess.new_effects[i].effect_type,
    value_numeric |-> sess.new_effects[i].value_numeric,
    currency      |-> sess.new_effects[i].currency,
    period_note   |-> sess.new_effects[i].period_note] : i \in 1..Len(sess.new_effects)}

\* self.db.commit(): the flush of the effects, then the commit.
Commit(s) ==
  /\ session[s].pc = "commit"
  /\ \/ /\ session[s].new_effects # <<>>
        /\ Fails(s, "effects")
     \/ Fails(s, "commit")
     \/ /\ database' = Committed(database,
                                 [session[s].tx EXCEPT !.effects = EffectRows(session[s], sequences)])
        /\ sequences' = [sequences EXCEPT !.effects = @ + Len(session[s].new_effects)]
        /\ session' = [session EXCEPT ![s].tx = EmptyTables, ![s].new_effects = <<>>,
                                      ![s].pc = "report"]
        /\ UNCHANGED fault
  /\ UNCHANGED <<inputs, budget>>
  /\ UNCHANGED parser_vars
  /\ UNCHANGED cleaner

\* What the history keeps of a save_case that ended.
Attempt(sess, outcome, after) ==
  [payload |-> Payload(sess), outcome |-> outcome, failed_at |-> sess.failed_at,
   case_id |-> sess.case_id, before |-> sess.before, after |-> after]

\* print(... new_case.title ... new_case.case_id ...); return new_case.  The
\* commit has expired the object, so reading it queries the database.
Report(s) ==
  /\ session[s].pc = "report"
  /\ \/ Fails(s, "report")
     \/ /\ session' = [session EXCEPT
             ![s].attempts = Append(@, Attempt(session[s], "returned", database)),
             ![s].pc = "loop", ![s].k = @ + 1]
        /\ UNCHANGED <<database, sequences, fault>>
  /\ UNCHANGED <<inputs, budget>>
  /\ UNCHANGED parser_vars
  /\ UNCHANGED cleaner

\* except Exception: self.db.rollback(); print(...); raise
Except(s) ==
  /\ session[s].pc = "except"
  /\ database' = AfterRollback(database, session[s].tx)
  /\ session' = [session EXCEPT
       ![s].attempts = Append(@, Attempt(session[s], "raised", database')),
       ![s].tx = EmptyTables, ![s].new_effects = <<>>,
       ![s].pc = "raised"]
  /\ UNCHANGED <<inputs, budget, sequences, fault>>
  /\ UNCHANGED parser_vars
  /\ UNCHANGED cleaner

\* finally: session.close(), at the end of the loop or when save_case raised.
CloseSession(s) ==
  /\ \/ session[s].pc = "raised"
     \/ session[s].pc = "loop" /\ session[s].k > Len(session[s].payloads)
  /\ session' = [session EXCEPT ![s].pc = "closed"]
  /\ UNCHANGED <<inputs, budget, database, sequences, fault>>
  /\ UNCHANGED parser_vars
  /\ UNCHANGED cleaner

NextPersist ==
  \/ \E s \in DOMAIN session : PersistCases(s)
  \/ \E s \in DOMAIN session : SaveCase(s)
  \/ \E s \in DOMAIN session : GetOrCreateRegion(s)
  \/ \E s \in DOMAIN session : GetOrCreateSector(s)
  \/ \E s \in DOMAIN session : GetOrCreateTechnologyDrivers(s)
  \/ \E s \in DOMAIN session : FlushCase(s)
  \/ \E s \in DOMAIN session : AddEffects(s)
  \/ \E s \in DOMAIN session : Commit(s)
  \/ \E s \in DOMAIN session : Report(s)
  \/ \E s \in DOMAIN session : Except(s)
  \/ \E s \in DOMAIN session : CloseSession(s)

\* ------------------------------------------------------------------------
\* main (src/agent/main.py): what it does with the agent output
\* ------------------------------------------------------------------------

\* A save_case of the run raised, so _persist_cases raised as well.
Raised(sess) == \E i \in 1..Len(sess.attempts) : sess.attempts[i].outcome = "raised"

\* _persist_cases(agent_output), the first call: session 1.
MainFirstPersist ==
  /\ session[1].pc = "idle"
  /\ PersistCases(1)

\* payloads = parse_agent_output(agent_output), and the titles are printed;
\* reached when the first _persist_cases has returned.
MainParse ==
  /\ session[1].pc = "closed"
  /\ ~Raised(session[1])
  /\ results = <<>>
  /\ \E text \in inputs : results' = <<<<text, ParseResult(text)>>>>
  /\ UNCHANGED <<inputs, budget, frame, cleaner>>
  /\ UNCHANGED repo_vars

\* _persist_cases(agent_output), the second call: session 2.
MainSecondPersist ==
  /\ results # <<>>
  /\ session[2].pc = "idle"
  /\ PersistCases(2)

NextMain ==
  \/ MainFirstPersist
  \/ MainParse
  \/ MainSecondPersist
  \/ \E s \in DOMAIN session : SaveCase(s)
  \/ \E s \in DOMAIN session : GetOrCreateRegion(s)
  \/ \E s \in DOMAIN session : GetOrCreateSector(s)
  \/ \E s \in DOMAIN session : GetOrCreateTechnologyDrivers(s)
  \/ \E s \in DOMAIN session : FlushCase(s)
  \/ \E s \in DOMAIN session : AddEffects(s)
  \/ \E s \in DOMAIN session : Commit(s)
  \/ \E s \in DOMAIN session : Report(s)
  \/ \E s \in DOMAIN session : Except(s)
  \/ \E s \in DOMAIN session : CloseSession(s)

\* ------------------------------------------------------------------------
\* CaseCleaner (src/data_ingestion/cleaners/case_cleaner.py)
\* ------------------------------------------------------------------------

\* re.sub(r"<.*?>", "", text): each "<" with a ">" later on its line goes
\* with everything up to the nearest such ">".
RECURSIVE RemoveTags(_)
RemoveTags(s) ==
  IF s = <<>> THEN <<>>
  ELSE LET J == {j \in 2..Len(s) : s[j] = ">" /\ \A k \in 2..(j - 1) : s[k] # "NL"}
       IN IF s[1] = "<" /\ J # {}
          THEN RemoveTags(Slice(s, (CHOOSE j \in J : \A i \in J : j <= i) + 1, Len(s)))
          ELSE <<s[1]>> \o RemoveTags(Tail(s))

\* None stays None; a text is stripped, loses its tags, has its whitespace
\* runs squashed, is stripped again, and is None when nothing is left.
_normalize_text(text) ==
  IF text = None THEN None
  ELSE LET t == Strip(SquashSpaces(RemoveTags(Strip(text))))
       IN IF t # <<>> THEN t ELSE None

\* The length of the text of a field, 0 for None.
TextLen(value) == IF value = None THEN 0 ELSE Len(value)

\* sum of len(case[field]) over the fields from position i on.
RECURSIVE CombinedLength(_, _, _)
CombinedLength(case, fields, i) ==
  IF i > Len(fields) THEN 0
  ELSE TextLen(case[fields[i]]) + CombinedLength(case, fields, i + 1)

\* The least length of a required field.
MinFieldLength == 5

_validate_case(self, case) ==
  /\ \A i \in 1..Len(self.required_text_fields) :
       /\ case[self.required_text_fields[i]] # None
       /\ Len(case[self.required_text_fields[i]]) >= MinFieldLength
  /\ CombinedLength(case, self.required_text_fields, 1) >= self.min_text_length

\* str(value).lower()
StrLower(value) ==
  LET text == IF value = None THEN <<"N", "o", "n", "e">> ELSE value
  IN [i \in 1..Len(text) |-> Lower(text[i])]

\* "|".join(str(case.get(field, "")).lower() for field in deduplicate_by_fields)
DedupKey(self, case) ==
  Join([i \in 1..Len(self.deduplicate_by_fields) |->
          StrLower(case[self.deduplicate_by_fields[i]])], <<"|">>)

\* case = original_case.copy() with every text normalized.
NormalizedCopy(original_case) ==
  [key \in DOMAIN original_case |-> _normalize_text(original_case[key])]

\* A call of clean_cases that has not started.  pc is "idle", "normalize" (at
\* the head of the loop), "validate", "dedup" or "returned".  given and kept
\* are history: the argument as it was passed, and the position in it of each
\* case of cleaned_cases.
IdleCleaner ==
  [pc |-> "idle", self |-> [required_text_fields |-> <<>>, min_text_length |-> 0,
                            deduplicate_by_fields |-> <<>>],
   cases |-> <<>>, n |-> 0, case |-> None, cleaned_cases |-> <<>>, seen_keys |-> {},
   given |-> <<>>, kept |-> <<>>]

\* cleaned_cases = []; seen_keys = set()
CleanCases(self, cases) ==
  /\ cleaner.pc = "idle"
  /\ cleaner' = [IdleCleaner EXCEPT !.pc = "normalize", !.self = self, !.cases = cases,
                                    !.n = 1, !.given = cases]
  /\ UNCHANGED <<inputs, budget>>
  /\ UNCHANGED parser_vars
  /\ UNCHANGED repo_vars

\* case = original_case.copy(); case[key] = self._normalize_text(value)
NormalizeCase ==
  /\ cleaner.pc = "normalize"
  /\ cleaner.n <= Len(cleaner.cases)
  /\ cleaner' = [cleaner EXCEPT !.case = NormalizedCopy(cleaner.cases[cleaner.n]),
                                !.pc = "validate"]
  /\ UNCHANGED <<inputs, budget>>
  /\ UNCHANGED parser_vars
  /\ UNCHANGED repo_vars

\* if not self._validate_case(case): continue
SkipInvalidCase ==
  /\ cleaner.pc = "validate"
  /\ ~_validate_case(cleaner.self, cleaner.case)
  /\ cleaner' = [cleaner EXCEPT !.n = @ + 1, !.pc = "normalize"]
  /\ UNCHANGED <<inputs, budget>>
  /\ UNCHANGED parser_vars
  /\ UNCHANGED repo_vars

ValidCase ==
  /\ cleaner.pc = "validate"
  /\ _validate_case(cleaner.self, cleaner.case)
  /\ cleaner' = [cleaner EXCEPT !.pc = "dedup"]
  /\ UNCHANGED <<inputs, budget>>
  /\ UNCHANGED parser_vars
  /\ UNCHANGED repo_vars

\* if dedup_key in seen_keys: continue
SkipDuplicateCase ==
  /\ cleaner.pc = "dedup"
  /\ cleaner.self.deduplicate_by_fields # <<>>
  /\ DedupKey(cleaner.self, cleaner.case) \in cleaner.seen_keys
  /\ cleaner' = [cleaner EXCEPT !.n = @ + 1, !.pc = "normalize"]
  /\ UNCHANGED <<inputs, budget>>
  /\ UNCHANGED parser_vars
  /\ UNCHANGED repo_vars

\* seen_keys.add(dedup_key); cleaned_cases.append(case)
AppendCleanedCase ==
  /\ cleaner.pc = "dedup"
  /\ \/ cleaner.self.deduplicate_by_fields = <<>>
     \/ DedupKey(cleaner.self, cleaner.case) \notin cleaner.seen_keys
  /\ cleaner' = [cleaner EXCEPT
       !.seen_keys = IF cleaner.self.deduplicate_by_fields = <<>> THEN @
                     ELSE @ \cup {DedupKey(cleaner.self, cleaner.case)},
       !.cleaned_cases = Append(@, cleaner.case),
       !.kept = Append(@, cleaner.n),
       !.n = @ + 1, !.pc = "normalize"]
  /\ UNCHANGED <<inputs, budget>>
  /\ UNCHANGED parser_vars
  /\ UNCHANGED repo_vars

\* return cleaned_cases
ReturnCleanedCases ==
  /\ cleaner.pc = "normalize"
  /\ cleaner.n > Len(cleaner.cases)
  /\ cleaner' = [cleaner EXCEPT !.pc = "returned"]
  /\ UNCHANGED <<inputs, budget>>
  /\ UNCHANGED parser_vars
  /\ UNCHANGED repo_vars

\* ------------------------------------------------------------------------
\* Inputs
\* ------------------------------------------------------------------------

\* The longest cell text that is enumerated in full.
MaxCell == 3
\* The most lines of a table whose lines are enumerated from LinePool.
MaxRows == 2
\* The most sections of a document whose sections are enumerated.
MaxSections == 2
\* The most calls in a run that repeats calls.
MaxCalls == 3

\* "| a | b |": a table row with the given cell texts.
Row(cells) == <<"|", " ">> \o Join(cells, <<" ", "|", " ">>) \o <<" ", "|">>

\* The lines joined by line feeds.
Text(lines) == Join(lines, <<"NL">>)

RECURSIVE Flatten(_)
Flatten(seqs) == IF seqs = <<>> THEN <<>> ELSE Head(seqs) \o Flatten(Tail(seqs))

\* All sequences over S of length at most n.
SeqsUpTo(S, n) == UNION {[1..k -> S] : k \in 0..n}

HeadingA     == <<"#", "#", " ", "A">>
HeadingBold  == <<"#", "#", " ", "*", "*", "B", "*", "*", " ", "EMOJI">>
HeadingBare  == <<"#", "#">>

HeaderFull     == Row(<< <<"#">>, <<"S", "e", "c", "t", "o", "r">>, <<"S", "c", "e", "n", "a", "r", "i", "o">>, <<"E", "f", "f", "e", "c", "t">>, <<"D", "r", "i", "v", "e", "r", "s">>, <<"S", "o", "u", "r", "c", "e">> >>)
HeaderNoEffect == Row(<< <<"#">>, <<"S", "e", "c", "t", "o", "r">>, <<"S", "c", "e", "n", "a", "r", "i", "o">> >>)
HeaderNoSector == Row(<< <<"#">>, <<"S", "c", "e", "n", "a", "r", "i", "o">>, <<"E", "f", "f", "e", "c", "t">> >>)

Separator   == <<"|", "-", "-", "-", "|", "-", "-", "-", "|">>
RowGood     == Row(<< <<"1">>, <<"F", "i", "n">>, <<"*", "*", "T", "*", "*", " ", "EN", " ", "D">>, <<"E">>, <<"x", ",", " ", "x">>, <<"s", "r", "c">> >>)
RowNoIndex  == Row(<< <<"n">>, <<"F", "i", "n">>, <<"T">>, <<"E">> >>)
RowShort    == Row(<< <<"2">>, <<"s">> >>)
RowDash     == Row(<< <<"3">>, <<"s">>, <<"EM">> >>)
RowMarkers  == Row(<< <<"4">>, <<"BT", "s", "BT">>, <<"T">>, <<"*", "*">>, <<",", " ", "y", ".", " ", "+", " ", "z">> >>)
RowTripleDash == Row(<< <<"5">>, <<"s">>, <<"T">>, <<"a", "-", "-", "-", "b">> >>)
Prose       == <<"t", "e", "x", "t">>

\* The characters of the cells that are enumerated in full.
CellChars == {"a", " ", "*", "BT", "-", ",", "."}

\* One section with a full header row and one data row whose cells all hold
\* the same text, for every text over CellChars of length at most MaxCell.
CellDocs ==
  {Text(<<HeadingA, HeaderFull, Row(<< <<"1">>, c, c, c, c, c >>)>>) :
     c \in SeqsUpTo(CellChars, MaxCell)}

\* The characters of the index cells that are enumerated in full.
IndexChars == {"1", ".", "a", " "}

\* One section, with a header row or without, and one data row whose first
\* cell holds every text over IndexChars of length at most MaxCell.
IndexDocs ==
  {Text(<<HeadingA>> \o h \o <<Row(<< c, <<"s">>, <<"T">>, <<"e">> >>)>>) :
     h \in {<<>>, <<HeaderFull>>}, c \in SeqsUpTo(IndexChars, MaxCell)}

\* The longest bold term that is enumerated in full.
MaxTerm == 2

\* The characters of the bold terms that are enumerated in full.
TermChars == {"a", " ", "*", "_", "BT", "EN"}

\* One section without header row and one data row whose scenario cell is
\* **T**, a dash and a description, for every T over TermChars of length 1 to
\* MaxTerm, each of three dashes and each of three descriptions.
ScenarioDocs ==
  {Text(<<HeadingA, Row(<< <<"1">>, <<"s">>, <<"*", "*">> \o t \o <<"*", "*">> \o d \o r, <<"e">> >>)>>) :
     t \in SeqsUpTo(TermChars, MaxTerm) \ {<<>>},
     d \in {<<"-">>, <<" ", "EN", " ">>, <<"EM", " ">>},
     r \in {<<"D">>, <<"*", "*", "D", "*", "*">>, <<"d", " ", " ", "BT", "-">>}}

\* The names and the delimiters the enumerated drivers cells are made of.
DriverNames == {<<"x">>, <<".", "y">>}
DriverDelims ==
  {<<",", " ">>, <<" ", "+", " ">>, <<";">>, <<"/">>,
   <<" ", "a", "n", "d", " ">>, <<" ", "A", "N", "D", " ">>,
   <<" ", "cyI", " ">>, <<"NNBSP", "CYI", " ">>}

\* One section with a full header row and one data row whose drivers cell is
\* a name, a delimiter, a name or nothing, a delimiter and a name.
DriverDocs ==
  {Text(<<HeadingA, HeaderFull,
          Row(<< <<"1">>, <<"s">>, <<"T">>, <<"e">>, a \o d \o b \o e \o c >>)>>) :
     a \in DriverNames, b \in DriverNames \cup {<<>>}, c \in DriverNames,
     d \in DriverDelims, e \in DriverDelims}

HeaderCompact == <<"|", "#", "|", "S", "e", "c", "t", "o", "r", "|", "S", "c", "e", "n", "a", "r", "i", "o", "|", "E", "f", "f", "e", "c", "t", "|">>
RowHashCell   == Row(<< <<"6">>, <<"#">>, <<"T">>, <<"E">> >>)

\* One section of at most MaxRows lines that are header rows, written with
\* or without blanks around the cells, or data rows, one of them with a
\* cell "#".
HeaderDocs ==
  {Text(<<HeadingA>> \o rows) :
     rows \in SeqsUpTo({HeaderFull, HeaderCompact, RowHashCell, RowGood}, MaxRows)}

\* The header cells that are combined: plain, upper case and Cyrillic
\* keywords, a keyword cut by a hyphen, and a cell holding two roles.
MaxHeaders == 3
HeaderCellPool ==
  { <<"S", "E", "C", "T", "O", "R">>,
    <<"S", "e", "c", "-", "t", "o", "r">>,
    <<"CYS", "cyC", "cyE", "cyN", "cyA", "cyR", "cyI", "cyJ">>,
    <<"E", "f", "f", "e", "c", "t", "/", "S", "e", "c", "t", "o", "r">>,
    <<"E", "f", "f", "e", "c", "t">>,
    <<"R", "e", "f", ".">> }

\* One section whose header row holds "#" and at most MaxHeaders cells of
\* HeaderCellPool, followed by one data row.
KeywordDocs ==
  {Text(<<HeadingA, Row(<< <<"#">> >> \o hs), RowGood>>) :
     hs \in SeqsUpTo(HeaderCellPool, MaxHeaders)}

\* The lines a table is made of.
LinePool ==
  {RowGood, RowNoIndex, RowShort, RowDash, RowMarkers, RowTripleDash, Separator, Prose}

\* One section: no header row, a full one or one without an effect or a
\* sector column,
\* then at most MaxRows lines of LinePool in every order.
TableDocs ==
  {Text(<<HeadingA>> \o h \o rows) :
     h \in {<<>>, <<HeaderFull>>, <<HeaderNoEffect>>, <<HeaderNoSector>>},
     rows \in SeqsUpTo(LinePool, MaxRows)}

\* The sections a document is made of: a heading and a short table.
SectionPool ==
  {<<h>> \o t :
     h \in {HeadingA, HeadingBold, HeadingBare},
     t \in {<<HeaderFull, Separator, RowNoIndex, RowGood>>, <<HeaderNoEffect, RowGood>>,
             <<RowNoIndex, RowShort, RowGood>>, <<Prose>>}}

\* At most MaxSections sections of SectionPool in every order.
StructDocs == {Text(Flatten(ss)) : ss \in SeqsUpTo(SectionPool, MaxSections)}

Docs ==
  CellDocs \cup IndexDocs \cup ScenarioDocs \cup DriverDocs \cup HeaderDocs
    \cup KeywordDocs
    \cup TableDocs \cup StructDocs

\* The documents with at most one section, for the runs that repeat calls.
SmallDocs == {Text(Flatten(ss)) : ss \in SeqsUpTo(SectionPool, 1)}

\* The texts of the fields of the cases that are cleaned: five letters or
\* four, in upper case, inside tags, and with the "|" that joins a key.
Alpha       == <<"a", "l", "p", "h", "a">>
AlphaUpper  == <<"A", "L", "P", "H", "A">>
AlphaTagged == <<" ", "<", "b", ">", "a", "l", "p", "h", "a", "<", "/", "b", ">">>
Alph        == <<"a", "l", "p", "h">>
AlphaBeta   == <<"a", "l", "p", "h", "a", "|", "b", "e", "t", "a">>
Gamma       == <<"g", "a", "m", "m", "a">>
BetaGamma   == <<"b", "e", "t", "a", "|", "g", "a", "m", "m", "a">>

CasePool ==
  {[title |-> Alpha,       summary |-> Gamma],
   [title |-> AlphaUpper,  summary |-> BetaGamma],
   [title |-> AlphaBeta,   summary |-> Gamma],
   [title |-> AlphaTagged, summary |-> Gamma],
   [title |-> Alph,        summary |-> Gamma],
   [title |-> None,        summary |-> Gamma],
   [title |-> Gamma,       summary |-> Alpha]}

\* The lists of at most MaxCases cases.
MaxCases == 2
CaseLists == SeqsUpTo(CasePool, MaxCases)

\* The cleaners: both fields required, a least combined length that the
\* shortest valid case meets or misses, duplicates by title or by both fields.
CleanerConfigs ==
  {[required_text_fields |-> <<"title", "summary">>, min_text_length |-> m,
    deduplicate_by_fields |-> d] :
     m \in {2 * MinFieldLength, 2 * MinFieldLength + 1},
     d \in {<<"title">>, <<"title", "summary">>}}

\* One caller, one call, any document.
Init ==
  /\ inputs \in {{d} : d \in Docs}
  /\ budget = 1
  /\ frame = [c \in {1} |-> IdleFrame]
  /\ results = <<>>
  /\ database = EmptyTables
  /\ sequences = NoSequences
  /\ session = [s \in {1} |-> IdleSession]
  /\ fault = FALSE
  /\ cleaner = IdleCleaner

Spec == Init /\ [][Next]_vars

\* One caller, MaxCalls calls in sequence, each on either of two documents.
InitRepeat ==
  /\ inputs \in {{d, e} : d \in SmallDocs, e \in SmallDocs}
  /\ budget = MaxCalls
  /\ frame = [c \in {1} |-> IdleFrame]
  /\ results = <<>>
  /\ database = EmptyTables
  /\ sequences = NoSequences
  /\ session = [s \in {1} |-> IdleSession]
  /\ fault = FALSE
  /\ cleaner = IdleCleaner

SpecRepeat == InitRepeat /\ [][Next]_vars

\* The most callers that run at the same time.
MaxCallers == 2

\* The one-section documents under the plain heading.
ConcurrentDocs == {d \in SmallDocs : d # <<>> /\ Slice(d, 1, Len(HeadingA) + 1) = HeadingA \o <<"NL">>}

\* MaxCallers callers, one call each, on either of two documents, their steps
\* interleaved in every order.
InitConcurrent ==
  /\ inputs \in {{d, e} : d \in ConcurrentDocs, e \in ConcurrentDocs}
  /\ budget = MaxCallers
  /\ frame = [c \in 1..MaxCallers |-> IdleFrame]
  /\ results = <<>>
  /\ database = EmptyTables
  /\ sequences = NoSequences
  /\ session = [s \in {1} |-> IdleSession]
  /\ fault = FALSE
  /\ cleaner = IdleCleaner

SpecConcurrent == InitConcurrent /\ [][Next]_vars

\* The most payloads of a document that is persisted.
MaxPayloads == 2

RowDriversXY == Row(<< <<"2">>, <<"F", "i", "n">>, <<"U", " ", "-", " ", "D">>, <<"E">>, <<"x", ",", " ", "y">> >>)
RowDriverY   == Row(<< <<"3">>, <<"s">>, <<"T">>, <<>>, <<"y">> >>)

\* The sections of the documents that are persisted: one data row each, with
\* the same driver twice, with two drivers, or in another region and sector
\* and without effect.
PersistSections ==
  {<<HeadingA, HeaderFull, RowGood>>, <<HeadingA, HeaderFull, RowDriversXY>>,
   <<HeadingBold, HeaderFull, RowDriverY>>}

PersistDocs == {Text(Flatten(ss)) : ss \in SeqsUpTo(PersistSections, MaxPayloads)}

\* One run of _persist_cases on any of the documents, on an empty database;
\* the database fails at most one statement.
InitPersist ==
  /\ inputs \in {{d} : d \in PersistDocs}
  /\ budget = 1
  /\ frame = [c \in {1} |-> IdleFrame]
  /\ results = <<>>
  /\ database = EmptyTables
  /\ sequences = NoSequences
  /\ session = [s \in {1} |-> IdleSession]
  /\ fault = FALSE
  /\ cleaner = IdleCleaner

SpecPersist == InitPersist /\ [][NextPersist]_vars

\* One run of main on any of the documents, on an empty database: two runs of
\* _persist_cases, each with a session of its own; the database fails at most
\* one statement.
InitMain ==
  /\ inputs \in {{d} : d \in PersistDocs}
  /\ budget = 2
  /\ frame = [c \in {1} |-> IdleFrame]
  /\ results = <<>>
  /\ database = EmptyTables
  /\ sequences = NoSequences
  /\ session = [s \in {1, 2} |-> IdleSession]
  /\ fault = FALSE
  /\ cleaner = IdleCleaner

SpecMain == InitMain /\ [][NextMain]_vars

\* The documents two sessions persist at the same time.
MaxRacePayloads == 1
RaceDocs == {Text(Flatten(ss)) : ss \in SeqsUpTo(PersistSections, MaxRacePayloads)}

\* Two runs of _persist_cases at the same time on one of the documents, each
\* with a session of its own, on an empty database; their steps interleave in
\* every way and the database fails at most one statement.
InitRace ==
  /\ inputs \in {{d} : d \in RaceDocs}
  /\ budget = 2
  /\ frame = [c \in {1} |-> IdleFrame]
  /\ results = <<>>
  /\ database = EmptyTables
  /\ sequences = NoSequences
  /\ session = [s \in {1, 2} |-> IdleSession]
  /\ fault = FALSE
  /\ cleaner = IdleCleaner

SpecRace == InitRace /\ [][NextPersist]_vars

NextClean ==
  \/ \E self \in CleanerConfigs : \E cases \in CaseLists : CleanCases(self, cases)
  \/ NormalizeCase
  \/ SkipInvalidCase
  \/ ValidCase
  \/ SkipDuplicateCase
  \/ AppendCleanedCase
  \/ ReturnCleanedCases

\* One call of clean_cases on any list of cases by any of the cleaners; no
\* parser call and no database session.
InitClean ==
  /\ inputs = {}
  /\ budget = 0
  /\ frame = [c \in {1} |-> IdleFrame]
  /\ results = <<>>
  /\ database = EmptyTables
  /\ sequences = NoSequences
  /\ session = [s \in {1} |-> IdleSession]
  /\ fault = FALSE
  /\ cleaner = IdleCleaner

SpecClean == InitClean /\ [][NextClean]_vars

\* ------------------------------------------------------------------------
\* Properties
\* ------------------------------------------------------------------------

\* The frames of the calls made so far.
Frames == {frame[c] : c \in DOMAIN frame}

\* The raw cell of payload k of frame f for a 0-based column index.
OriginCell(f, k, idx) == _safe_get(SplitCells(f.origin[k].line), idx)

\* The <<section, data line>> pairs of the sections from index k on whose
\* table the parser is to walk, in document order.
RECURSIVE AllRows(_, _, _)
AllRows(s, matches, k) ==
  IF k > Len(matches) THEN <<>>
  ELSE LET table_lines == TableLines(SectionBody(s, matches, k))
           cols        == ResolveColumns(table_lines)
       IN (IF table_lines = <<>> \/ Unresolved(cols) THEN <<>>
           ELSE [i \in 1..Len(cols.data_lines) |-> <<k, i>>])
          \o AllRows(s, matches, k + 1)

\* Every step of a call moves forward in the two loops, or returns.
Progress(c) ==
  \/ frame'[c].pc = "done"
  \/ frame'[c].idx > frame[c].idx
  \/ frame'[c].idx = frame[c].idx /\ frame'[c].line_no > frame[c].line_no

\* C1: parse_agent_output never raises and terminates: a call under way
\* always has a step to take, every step moves forward in the section loop or
\* the row loop, and when the call has returned the row loop has reached every
\* data line of every section with a resolved table, in order, so no skipped
\* row or section kept a later one from being processed.
C1_NeverRaises ==
  /\ [](\A c \in DOMAIN frame :
          /\ frame[c].pc \in {"sections", "rows"} =>
               /\ CanStep(frame[c])
               /\ frame[c].pc = "rows" => frame[c].line_no \in 1..Len(frame[c].cols.data_lines)
          /\ frame[c].pc = "done" =>
               /\ frame[c].idx = Len(frame[c].section_matches) + 1
               /\ frame[c].visited =
                    AllRows(frame[c].agent_output, FindSections(frame[c].agent_output, 1), 1)
               /\ Len(frame[c].payloads) <= Len(frame[c].visited))
  /\ [][\A c \in DOMAIN frame : Step(c) => Progress(c)]_vars

\* C1 witness: a call has returned a payload from a row that follows a
\* skipped row, in a section that follows a skipped section.
C1_Witness ==
  \E f \in Frames :
    /\ f.pc = "done"
    /\ \E k \in 1..Len(f.origin) :
         /\ f.origin[k].section > 1
         /\ f.origin[k].line_no > 1
         /\ \A j \in 1..Len(f.origin) : f.origin[j].section = f.origin[k].section
                                         => f.origin[j].line_no >= f.origin[k].line_no

\* C2: every emitted payload has a non-empty title or a non-empty summary.
C2_TitleOrSummary ==
  \A f \in Frames : \A k \in 1..Len(f.payloads) :
    f.payloads[k].case.title # <<>> \/ f.payloads[k].case.summary # <<>>

\* No markdown marker, no emoji or pictographic code point, no whitespace at
\* either end and no run of two whitespace characters.
PlainText(t) ==
  /\ ~Contains(t, <<"*", "*">>)
  /\ ~Contains(t, <<"_", "_">>)
  /\ \A i \in 1..Len(t) : t[i] \notin {"BT", "EMOJI", "FLAG"}
  /\ Strip(t) = t
  /\ \A i \in 1..(Len(t) - 1) : ~(IsSpace(t[i]) /\ IsSpace(t[i + 1]))

\* C3: in every emitted payload region_name and sector_name are plain text.
C3_PlainNames ==
  \A f \in Frames : \A k \in 1..Len(f.payloads) :
    /\ PlainText(f.payloads[k].case.region_name)
    /\ PlainText(f.payloads[k].case.sector_name)

\* C4: in every emitted payload technology_drivers holds no string twice.
C4_DistinctDrivers ==
  \A f \in Frames : \A k \in 1..Len(f.payloads) :
    LET d == f.payloads[k].technology_drivers
    IN \A i, j \in 1..Len(d) : i # j => d[i] # d[j]

\* C5: in every emitted payload technology_drivers holds no empty string.
C5_NoEmptyDriver ==
  \A f \in Frames : \A k \in 1..Len(f.payloads) :
    LET d == f.payloads[k].technology_drivers
    IN \A i \in 1..Len(d) : d[i] # <<>>

\* C5 witness: a payload with drivers whose drivers cell splits into a piece
\* that is empty once trimmed of spaces and periods.
C5_Witness ==
  \E f \in Frames : \E k \in 1..Len(f.payloads) :
    LET pieces == DriverSplit(OriginCell(f, k, f.origin[k].cols.drivers_idx)) IN
    /\ f.payloads[k].technology_drivers # <<>>
    /\ \E i \in 1..Len(pieces) : StripChars(pieces[i], {" ", "."}) = <<>>

\* The raw effect cell of payload k of frame f.
EffectCell(f, k) == OriginCell(f, k, f.origin[k].cols.effect_idx)

\* The one entry _build_effects makes of a note.
IsTextNote(e, note) ==
  /\ e.effect_type = "text_note"
  /\ e.value_numeric = None
  /\ e.currency = None
  /\ e.period_note = note

\* C6 as amended: economic_effects has exactly one entry when the row's effect
\* cell is non-empty after markdown stripping and none otherwise; the entry
\* has effect_type "text_note", value_numeric None and currency None.
C6_EffectsOfStrippedCell ==
  \A f \in Frames : \A k \in 1..Len(f.payloads) :
    LET effects == f.payloads[k].economic_effects IN
    IF _strip_markdown(EffectCell(f, k)) # <<>>
    THEN Len(effects) = 1 /\ IsTextNote(effects[1], _strip_markdown(EffectCell(f, k)))
    ELSE effects = <<>>

\* C6 witness: one call returned a payload with one effect entry and a payload
\* without any whose effect cell holds markdown markers only.
C6_Witness ==
  \E f \in Frames :
    /\ f.pc = "done"
    /\ \E k \in 1..Len(f.payloads) : Len(f.payloads[k].economic_effects) = 1
    /\ \E k \in 1..Len(f.payloads) :
         EffectCell(f, k) # <<>> /\ f.payloads[k].economic_effects = <<>>

\* C6 as stated: economic_effects has exactly one entry when the row's effect
\* cell is non-empty and none otherwise.
C6_EffectsOfRawCell ==
  \A f \in Frames : \A k \in 1..Len(f.payloads) :
    LET effects == f.payloads[k].economic_effects IN
    IF EffectCell(f, k) # <<>>
    THEN Len(effects) = 1 /\ IsTextNote(effects[1], effects[1].period_note)
    ELSE effects = <<>>

\* C7: calls on the same input return equal payload sequences, whatever calls
\* were made before or in between.
C7_Deterministic ==
  \A i, j \in 1..Len(results) :
    results[i][1] = results[j][1] => results[i][2] = results[j][2]

\* C7 witness: three calls have returned, the first and the third on the same
\* input, the second on another, and the first two returned payloads.
C7_Witness ==
  /\ Len(results) = 3
  /\ results[1][1] = results[3][1]
  /\ results[1][1] # results[2][1]
  /\ results[1][2] # <<>>
  /\ results[2][2] # <<>>

\* The numbers of the lines that are headings on their own.
HeadingLineNos(lines) == {n \in 1..Len(lines) : HeadingGroupStart(lines[n], 1) # 0}

\* The k-th smallest member of a set of numbers.
Nth(S, k) == CHOOSE n \in S : Cardinality({m \in S : m < n}) = k - 1

\* The cleaned heading text of a heading line.
HeadingRegion(ln) ==
  _clean_region_name(Strip(Slice(ln, HeadingGroupStart(ln, 1), Len(ln))))

\* C8: the payloads are ordered by section in document order and by row
\* within a section, and each payload's region_name is the cleaned heading
\* text of the section that contains its row: the row lies between the
\* section's heading line and the next heading line.
C8_OrderAndRegion ==
  \A f \in Frames : \A k \in 1..Len(f.payloads) :
    LET lines == SplitLines(f.agent_output)
        H     == HeadingLineNos(lines)
        o     == f.origin[k]
    IN /\ k > 1 =>
            \/ f.origin[k - 1].section < o.section
            \/ f.origin[k - 1].section = o.section /\ f.origin[k - 1].line_no < o.line_no
       /\ o.section <= Cardinality(H)
       /\ LET first == Nth(H, o.section)
               last  == IF o.section < Cardinality(H) THEN Nth(H, o.section + 1) - 1
                        ELSE Len(lines)
           IN /\ f.payloads[k].case.region_name = HeadingRegion(lines[first])
              /\ \E n \in (first + 1)..last : lines[n] = o.line

\* The text without the section at index k of matches.
WithoutSection(s, matches, k) ==
  Slice(s, 1, matches[k].start - 1)
    \o Slice(s, IF k + 1 <= Len(matches) THEN matches[k + 1].start ELSE Len(s) + 1, Len(s))

\* The section at index k has a header row that leaves a mandatory role open.
HasUnresolvedHeader(s, matches, k) ==
  LET table_lines == TableLines(SectionBody(s, matches, k))
      cols        == ResolveColumns(table_lines)
  IN /\ HeaderIdx(table_lines) # 0
     /\ NoIndex \in {cols.sector_idx, cols.scenario_idx, cols.effect_idx}

\* C9: a section whose header row leaves sector, scenario or effect
\* unresolved contributes no payload, and the call returns what it returns
\* for the text without that section.
C9_UnresolvedSectionSkipped ==
  \A f \in Frames :
    f.pc = "done" =>
      \A k \in 1..Len(f.section_matches) :
        HasUnresolvedHeader(f.agent_output, f.section_matches, k) =>
          /\ \A j \in 1..Len(f.origin) : f.origin[j].section # k
          /\ f.payloads = ParseResult(WithoutSection(f.agent_output, f.section_matches, k))

\* C9 witness: a call returned payloads for a text with a section whose
\* header row has no effect column and data rows under it.
C9_Witness ==
  \E f \in Frames :
    /\ f.pc = "done"
    /\ f.payloads # <<>>
    /\ \E k \in 1..Len(f.section_matches) :
         /\ HasUnresolvedHeader(f.agent_output, f.section_matches, k)
         /\ ResolveColumns(TableLines(SectionBody(f.agent_output, f.section_matches, k))).data_lines # <<>>

\* The cell at a 0-based position of a row, empty when the row is shorter.
CellAt(line, n) ==
  LET cells == SplitCells(line) IN IF n < Len(cells) THEN cells[n + 1] ELSE <<>>

\* The section of payload k of frame f has no header row.
FromHeaderlessSection(f, k) ==
  HeaderIdx(TableLines(SectionBody(f.agent_output, f.section_matches,
                                   f.origin[k].section))) = 0

\* C10: a payload of a section without header row takes sector from cell 1,
\* scenario from cell 2, effect from cell 3 and source from cell 4 of its row
\* and has no technology driver, however many cells the row has.
C10_PositionalFallback ==
  \A f \in Frames : \A k \in 1..Len(f.payloads) :
    FromHeaderlessSection(f, k) =>
      LET line == f.origin[k].line
          ts   == _extract_title_and_summary(CellAt(line, 2))
          note == _strip_markdown(CellAt(line, 3))
          src  == _strip_markdown(CellAt(line, 4))
          p    == f.payloads[k]
      IN /\ p.case.sector_name = _strip_markdown(CellAt(line, 1))
         /\ p.case.title = ts[1]
         /\ p.case.summary = (IF ts[2] # <<>> THEN ts[2] ELSE note)
         /\ p.case.key_effect_note = note
         /\ p.economic_effects = _build_effects(CellAt(line, 3))
         /\ p.case.detailed_notes = (IF src # <<>> THEN src ELSE None)
         /\ p.technology_drivers = <<>>

\* C10 witness: a payload of a section without header row whose row has six
\* cells, and one whose row has three.
C10_Witness ==
  \E f \in Frames :
    /\ \E k \in 1..Len(f.payloads) :
         FromHeaderlessSection(f, k) /\ Len(SplitCells(f.origin[k].line)) = 6
    /\ \E k \in 1..Len(f.payloads) :
         FromHeaderlessSection(f, k) /\ Len(SplitCells(f.origin[k].line)) = 3

\* The first cell of a table row: the text after the row's leading pipes up
\* to the next pipe, trimmed.
FirstCell(line) ==
  LET s == Strip(line)
      A == {i \in 1..Len(s) : s[i] # "|"}
      a == IF A = {} THEN Len(s) + 1 ELSE CHOOSE i \in A : \A j \in A : i <= j
      B == {i \in a..Len(s) : s[i] = "|"}
      b == IF B = {} THEN Len(s) + 1 ELSE CHOOSE i \in B : \A j \in B : i <= j
  IN Strip(Slice(s, a, b - 1))

\* Digits, optionally followed by a dot and digits.
IsNumeral(t) ==
  \E n \in 1..Len(t) :
    /\ \A i \in 1..n : IsDigit(t[i])
    /\ \/ n = Len(t)
       \/ /\ n + 2 <= Len(t)
          /\ t[n + 1] = "."
          /\ \A i \in (n + 2)..Len(t) : IsDigit(t[i])

\* The column roles of the section at index k of frame f.
SectionCols(f, k) ==
  ResolveColumns(TableLines(SectionBody(f.agent_output, f.section_matches, k)))

\* C11: every payload comes from a table row whose first cell is an integer
\* or decimal-like numeral, in a section with a header row and in one without.
C11_OnlyIndexedRows ==
  \A f \in Frames : \A k \in 1..Len(f.origin) :
    IsNumeral(FirstCell(f.origin[k].line))

\* C11 witness: a call has returned payloads after its row loop reached a
\* row with a first cell that is no numeral both in a section with a header
\* row and in a section without one.
C11_Witness ==
  \E f \in Frames :
    /\ f.pc = "done"
    /\ f.payloads # <<>>
    /\ \A h \in {TRUE, FALSE} :
         \E v \in 1..Len(f.visited) :
           LET cols == SectionCols(f, f.visited[v][1]) IN
           /\ (cols.header_idx # 0) = h
           /\ ~IsNumeral(FirstCell(cols.data_lines[f.visited[v][2]]))

\* A markdown table divider: pipes, dashes, colons and spaces only, with a dash.
DashesOnly(line) ==
  /\ \A i \in 1..Len(line) : line[i] \in {"|", "-", ":", " "}
  /\ \E i \in 1..Len(line) : line[i] = "-"

\* The rows of the payloads frame f took from the section at index k, in order.
OriginLines(f, k) ==
  LET FromK(o) == o.section = k
      os       == SelectSeq(f.origin, FromK)
  IN [i \in 1..Len(os) |-> os[i].line]

\* The section at index k of frame f has a header row that resolves sector,
\* scenario and effect.
HasResolvedHeader(f, k) ==
  LET cols == SectionCols(f, k) IN
  /\ TableLines(SectionBody(f.agent_output, f.section_matches, k)) # <<>>
  /\ cols.header_idx # 0
  /\ NoIndex \notin {cols.sector_idx, cols.scenario_idx, cols.effect_idx}

\* The source cell of a row, markdown-stripped, or None when it is empty.
SourceNote(line, cols) ==
  LET src == IF cols.source_idx = NoIndex THEN <<>>
             ELSE _strip_markdown(CellAt(line, cols.source_idx))
  IN IF src # <<>> THEN src ELSE None

\* C12: a section whose header row resolves sector, scenario and effect
\* contributes one payload for each table line after the header that is not a
\* dashes-only separator row, has an index-like first cell and a non-empty
\* scenario cell, in order, and none for any other line; sector_name,
\* key_effect_note and detailed_notes are the markdown-stripped sector, effect
\* and source cells of the row.
C12_HeaderResolvedRows ==
  \A f \in Frames :
    f.pc = "done" =>
      \A k \in 1..Len(f.section_matches) :
        HasResolvedHeader(f, k) =>
          LET cols        == SectionCols(f, k)
              table_lines == TableLines(SectionBody(f.agent_output, f.section_matches, k))
              Accepted(ln) == /\ ~DashesOnly(ln)
                              /\ IsNumeral(FirstCell(ln))
                              /\ CellAt(ln, cols.scenario_idx) # <<>>
          IN /\ OriginLines(f, k) =
                  SelectSeq(Slice(table_lines, cols.header_idx + 1, Len(table_lines)), Accepted)
             /\ \A j \in 1..Len(f.origin) :
                  f.origin[j].section = k =>
                    LET ln == f.origin[j].line
                        p  == f.payloads[j].case
                    IN /\ p.sector_name = _strip_markdown(CellAt(ln, cols.sector_idx))
                       /\ p.key_effect_note = _strip_markdown(CellAt(ln, cols.effect_idx))
                       /\ p.detailed_notes = SourceNote(ln, cols)

\* The raw scenario cell of payload k of frame f.
ScenarioCell(f, k) == OriginCell(f, k, f.origin[k].cols.scenario_idx)

\* The ways to read a cell as **T** <dash> D: the pairs <<T, D>> with T a
\* non-empty term without ** and D the text after the dash, not blank.
TermForms(cell) ==
  {<<Slice(cell, 3, jd[1] - 1), Slice(cell, jd[2] + 1, Len(cell))>> :
     jd \in {x \in (4..(Len(cell) - 1)) \X (6..Len(cell)) :
               /\ cell[1] = "*" /\ cell[2] = "*"
               /\ cell[x[1]] = "*" /\ cell[x[1] + 1] = "*"
               /\ ~Contains(Slice(cell, 3, x[1] - 1), <<"*", "*">>)
               /\ x[2] >= x[1] + 2
               /\ \A i \in (x[1] + 2)..(x[2] - 1) : IsSpace(cell[i])
               /\ IsDash(cell[x[2]])
               /\ Strip(Slice(cell, x[2] + 1, Len(cell))) # <<>>}}

\* A term with its markdown markers taken out in one pass from the left: the
\* pairs ** and __ and the backtick.
RECURSIVE WithoutMarkers(_)
WithoutMarkers(t) ==
  IF t = <<>> THEN <<>>
  ELSE IF Len(t) >= 2 /\ t[1] = t[2] /\ t[1] \in {"*", "_"} THEN WithoutMarkers(Slice(t, 3, Len(t)))
  ELSE IF t[1] = "BT" THEN WithoutMarkers(Tail(t))
  ELSE <<t[1]>> \o WithoutMarkers(Tail(t))

\* En and em dashes written as hyphens.
WithHyphens(t) == [i \in 1..Len(t) |-> IF t[i] \in {"EN", "EM"} THEN "-" ELSE t[i]]

\* C13 as amended: for a scenario cell of the form **T** <dash> D the title
\* is T with markdown markers removed, en and em dashes replaced by hyphens
\* and whitespace collapsed, and the summary is D trimmed, markdown kept.
C13_BoldTermAndDash ==
  \A f \in Frames : \A k \in 1..Len(f.payloads) :
    \A td \in TermForms(ScenarioCell(f, k)) :
      /\ f.payloads[k].case.title = CollapseSpaces(WithHyphens(WithoutMarkers(td[1])))
      /\ f.payloads[k].case.summary = Strip(td[2])

\* C13 witness: a payload of such a cell whose term holds an en dash and whose
\* summary kept its markdown.
C13_Witness ==
  \E f \in Frames : \E k \in 1..Len(f.payloads) :
    \E td \in TermForms(ScenarioCell(f, k)) :
      /\ \E i \in 1..Len(td[1]) : td[1][i] = "EN"
      /\ Contains(f.payloads[k].case.summary, <<"*", "*">>)

\* C13 as stated: the title is T with markdown markers removed and whitespace
\* collapsed, and the summary is D trimmed, markdown kept.
C13_TitleKeepsDashes ==
  \A f \in Frames : \A k \in 1..Len(f.payloads) :
    \A td \in TermForms(ScenarioCell(f, k)) :
      /\ f.payloads[k].case.title = CollapseSpaces(WithoutMarkers(td[1]))
      /\ f.payloads[k].case.summary = Strip(td[2])

\* The raw drivers cell of payload k of frame f.
DriversCell(f, k) == OriginCell(f, k, f.origin[k].cols.drivers_idx)

\* The length of the standalone word "i" (Cyrillic) or "and", in any letter
\* case, that starts at position i of s with whitespace on either side, or 0.
WordAt(s, i) ==
  LET n == IF Lower(s[i]) = "cyI" THEN 1
           ELSE IF /\ i + 2 <= Len(s)
                   /\ Lower(s[i]) = "a" /\ Lower(s[i + 1]) = "n" /\ Lower(s[i + 2]) = "d"
           THEN 3 ELSE 0
  IN IF n > 0 /\ i > 1 /\ IsSpace(s[i - 1]) /\ i + n <= Len(s) /\ IsSpace(s[i + n])
     THEN n ELSE 0

\* The tokens of s from position i on, cur being the token under way: split
\* at every comma, semicolon, slash and plus sign and at every standalone word.
RECURSIVE TokensFrom(_, _, _)
TokensFrom(s, i, cur) ==
  IF i > Len(s) THEN <<cur>>
  ELSE IF s[i] \in {",", ";", "/", "+"} THEN <<cur>> \o TokensFrom(s, i + 1, <<>>)
  ELSE IF WordAt(s, i) > 0 THEN <<cur>> \o TokensFrom(s, i + WordAt(s, i), <<>>)
  ELSE TokensFrom(s, i + 1, Append(cur, s[i]))

\* The tokens trimmed of surrounding whitespace and periods, the empty ones
\* left out, in cell order.
DriverTokens(cell) ==
  LET toks == TokensFrom(cell, 1, <<>>)
  IN NonEmpty([i \in 1..Len(toks) |-> StripChars(toks[i], {" ", "NL", "NNBSP", "."})])

\* C14: when a drivers column is resolved, technology_drivers holds the
\* tokens of the drivers cell split on comma, semicolon, slash, plus sign and
\* the standalone words, trimmed of whitespace and periods, the non-empty ones
\* in cell order.
C14_DriversSplit ==
  \A f \in Frames : \A k \in 1..Len(f.payloads) :
    f.origin[k].cols.drivers_idx # NoIndex =>
      f.payloads[k].technology_drivers = DriverTokens(DriversCell(f, k))

\* A step of caller c leaves the inputs, the text the call was given and the
\* frames of the other callers as they are.
StepIsLocal(c) ==
  /\ inputs' = inputs
  /\ frame[c].pc # "idle" => frame'[c].agent_output = frame[c].agent_output
  /\ \A d \in DOMAIN frame : d # c => frame'[d] = frame[d]

\* C15: under every interleaving of the steps of concurrent calls each call
\* returns the payloads it returns when run alone, and no step writes state
\* of another call or changes an input.
C15_ConcurrentCalls ==
  /\ [](\A i \in 1..Len(results) : results[i][2] = ParseResult(results[i][1]))
  /\ [][\A c \in DOMAIN frame : Step(c) => StepIsLocal(c)]_vars

\* C15 witness: two calls are under way at the same time, on different
\* inputs, each with a payload appended and neither returned.
C15_Witness ==
  \E c, d \in DOMAIN frame :
    /\ c # d
    /\ frame[c].pc \in {"sections", "rows"} /\ frame[d].pc \in {"sections", "rows"}
    /\ frame[c].agent_output # frame[d].agent_output
    /\ frame[c].payloads # <<>> /\ frame[d].payloads # <<>>

\* The attempts of all sessions: the save_case calls that have ended.
Attempts == UNION {{session[s].attempts[i] : i \in 1..Len(session[s].attempts)} : s \in DOMAIN session}

\* The steps of save_case up to and including the commit.
StepsUpToCommit == {"region", "sector", "drivers", "flush", "effects", "commit"}

\* C16: when save_case fails at a step up to the commit (reference look-up
\* or creation, case insert, flush, effect insert, commit), the session is
\* rolled back, the exception is raised to the caller and the committed rows
\* are those from before the call.
C16_FailedSaveRollsBack ==
  /\ \A a \in Attempts :
       a.failed_at \in StepsUpToCommit => a.outcome = "raised" /\ a.after = a.before
  /\ \A s \in DOMAIN session :
       /\ session[s].pc = "except" /\ session[s].failed_at \in StepsUpToCommit =>
            database = session[s].before
       /\ session[s].pc = "raised" =>
            session[s].tx = EmptyTables /\ session[s].new_effects = <<>>

\* C16 witness: a save_case that had flushed its rows failed at the effect
\* insert or the commit and has raised, with an earlier payload committed.
C16_Witness ==
  \E a \in Attempts :
    /\ a.outcome = "raised"
    /\ a.failed_at \in {"effects", "commit"}
    /\ a.case_id # 0
    /\ a.before.cases # {}

\* C17: every payload is attempted in a transaction of its own, also after
\* the save of an earlier payload failed, and every payload whose save
\* returned is committed.
C17_ContinuesAfterFailure ==
  \A s \in DOMAIN session :
    session[s].pc = "closed" =>
      /\ Len(session[s].attempts) = Len(session[s].payloads)
      /\ \A i \in 1..Len(session[s].attempts) :
           session[s].attempts[i].outcome = "returned" =>
             \E c \in database.cases : c.id = session[s].attempts[i].case_id

\* The names of the rows of a reference table.
Names(rows) == {r.name : r \in rows}

\* The items of a sequence.
Range(seq) == {seq[i] : i \in 1..Len(seq)}

\* C18: after save_case calls that all succeeded, the committed rows hold one
\* region row for every region name saved, one sector row for every sector
\* name and one driver row for every driver name, no other reference row, one
\* case row for every call, and each case row points at the region and sector
\* rows with the names of its payload.
C18_OneRowPerName ==
  \A s \in DOMAIN session :
    (/\ session[s].pc \in {"loop", "closed"}
     /\ \A a \in Range(session[s].attempts) : a.outcome = "returned") =>
      LET saved == {a.payload : a \in Range(session[s].attempts)} IN
      /\ Names(database.regions) = {p.case.region_name : p \in saved}
      /\ Cardinality(database.regions) = Cardinality(Names(database.regions))
      /\ Names(database.sectors) = {p.case.sector_name : p \in saved}
      /\ Cardinality(database.sectors) = Cardinality(Names(database.sectors))
      /\ Names(database.drivers) = UNION {Range(p.technology_drivers) : p \in saved}
      /\ Cardinality(database.drivers) = Cardinality(Names(database.drivers))
      /\ Cardinality(database.cases) = Len(session[s].attempts)
      /\ \A a \in Range(session[s].attempts) :
           \E c \in database.cases :
             /\ c.id = a.case_id
             /\ \E r \in database.regions :
                  r.id = c.region_id /\ r.name = a.payload.case.region_name
             /\ \E r \in database.sectors :
                  r.id = c.sector_id /\ r.name = a.payload.case.sector_name

\* C18 witness: two payloads of different regions that share a driver were
\* saved, and the session is closed.
C18_Witness ==
  \E s \in DOMAIN session :
    /\ session[s].pc = "closed"
    /\ Len(session[s].attempts) = 2
    /\ \A a \in Range(session[s].attempts) : a.outcome = "returned"
    /\ session[s].attempts[1].payload.case.region_name
         # session[s].attempts[2].payload.case.region_name
    /\ Range(session[s].attempts[1].payload.technology_drivers)
         \cap Range(session[s].attempts[2].payload.technology_drivers) # {}

\* C19: the header row of a section is a table row whose first cell is "#":
\* no other row is chosen, and a section with such a row has a header row.
C19_HeaderRowStartsWithHash ==
  \A f \in Frames :
    f.pc = "done" =>
      \A k \in 1..Len(f.section_matches) :
        LET table_lines == TableLines(SectionBody(f.agent_output, f.section_matches, k))
            header_idx  == SectionCols(f, k).header_idx
            H == {i \in 1..Len(table_lines) : FirstCell(table_lines[i]) = <<"#">>}
        IN /\ header_idx # 0 => header_idx \in H
           /\ H # {} => header_idx # 0

\* The roles of a header row and the keyword list of each.
Roles == {"sector_idx", "scenario_idx", "effect_idx", "drivers_idx", "source_idx"}

KeywordsOf(role) ==
  CASE role = "sector_idx"   -> SectorKeywords
    [] role = "scenario_idx" -> ScenarioKeywords
    [] role = "effect_idx"   -> EffectKeywords
    [] role = "drivers_idx"  -> DriversKeywords
    [] role = "source_idx"   -> SourceKeywords

HoldsKeyword(text, role) ==
  \E k \in 1..Len(KeywordsOf(role)) : Contains(text, KeywordsOf(role)[k])

\* A header text in lower case with the characters that are neither
\* alphanumeric nor whitespace removed and whitespace collapsed.
NonAlnumRemoved(header) ==
  LET lowered == [i \in 1..Len(header) |-> Lower(header[i])]
      Kept(c) == IsHeaderAlnum(c) \/ IsSpace(c)
  IN Strip(SquashSpaces(SelectSeq(lowered, Kept)))

\* idx is the 0-based index of the first of the texts holding a keyword of
\* the role, NoIndex when none does.
IsFirstKeywordColumn(idx, texts, role) ==
  LET hits == {i \in 1..Len(texts) : HoldsKeyword(texts[i], role)}
  IN IF hits = {} THEN idx = NoIndex
     ELSE idx + 1 \in hits /\ \A j \in hits : idx + 1 <= j

\* C20: with a header row, each role resolves to the smallest column index
\* whose header text, in lower case with every run of non-alphanumeric
\* characters turned into one blank, contains a keyword of the role, and to
\* None when no header does.
C20_FirstKeywordColumn ==
  \A f \in Frames :
    f.pc = "done" =>
      \A k \in 1..Len(f.section_matches) :
        LET table_lines == TableLines(SectionBody(f.agent_output, f.section_matches, k))
            cols  == SectionCols(f, k)
            cells == SplitCells(table_lines[cols.header_idx])
            texts == [i \in 1..Len(cells) |->
                        Strip(SquashSpaces(
                          [j \in 1..Len(cells[i]) |->
                             IF IsHeaderAlnum(Lower(cells[i][j]))
                             THEN Lower(cells[i][j]) ELSE " "]))]
        IN cols.header_idx # 0 =>
             \A role \in Roles : IsFirstKeywordColumn(cols[role], texts, role)

\* A header row with two sector columns, the first of them chosen, and no
\* source column.
C20_Witness ==
  \E f \in Frames :
    /\ f.pc = "done"
    /\ \E k \in 1..Len(f.section_matches) :
         LET table_lines == TableLines(SectionBody(f.agent_output, f.section_matches, k))
             cols  == SectionCols(f, k)
             cells == SplitCells(table_lines[cols.header_idx])
         IN /\ cols.header_idx # 0
            /\ cols.sector_idx # NoIndex
            /\ cols.source_idx = NoIndex
            /\ \E j \in 1..Len(cells) :
                 /\ j > cols.sector_idx + 1
                 /\ HoldsKeyword(_normalize_header_text(cells[j]), "sector_idx")

\* C20 as stated: the header text has its non-alphanumeric characters removed.
C20_FirstKeywordColumnRemoved ==
  \A f \in Frames :
    f.pc = "done" =>
      \A k \in 1..Len(f.section_matches) :
        LET table_lines == TableLines(SectionBody(f.agent_output, f.section_matches, k))
            cols  == SectionCols(f, k)
            cells == SplitCells(table_lines[cols.header_idx])
            texts == [i \in 1..Len(cells) |-> NonAlnumRemoved(cells[i])]
        IN cols.header_idx # 0 =>
             \A role \in Roles : IsFirstKeywordColumn(cols[role], texts, role)

\* C21: a row whose scenario cell yields an empty title and an empty summary
\* contributes no payload, whatever its effect cell holds.
C21_EmptyScenarioDropped ==
  \A f \in Frames : \A k \in 1..Len(f.payloads) :
    LET ts == _extract_title_and_summary(ScenarioCell(f, k))
    IN ~(ts[1] = <<>> /\ ts[2] = <<>>)

\* The positions of the hyphens of a text.
Hyphens(t) == {i \in 1..Len(t) : t[i] = "-"}

\* C22: a scenario cell without the bold-term-then-dash pattern is
\* markdown-stripped and dash-normalized and split at its first dash only: the
\* text before it is the title and all the text after it, later dashes
\* included, is the summary; without a dash the whole cleaned text is the title
\* and the extracted summary is empty, so the effect note takes its place.
C22_SplitAtFirstDash ==
  \A f \in Frames : \A k \in 1..Len(f.payloads) :
    LET cell    == ScenarioCell(f, k)
        cleaned == _strip_markdown(cell)
        case    == f.payloads[k].case
    IN ScenarioSearch(cell) = <<>> =>
         IF Hyphens(cleaned) # {}
         THEN LET d == CHOOSE i \in Hyphens(cleaned) : \A j \in Hyphens(cleaned) : i <= j
                  after == Strip(Slice(cleaned, d + 1, Len(cleaned)))
              IN /\ case.title = Strip(Slice(cleaned, 1, d - 1))
                 /\ case.summary = IF after # <<>> THEN after ELSE case.key_effect_note
         ELSE /\ case.title = cleaned
              /\ case.summary = case.key_effect_note

\* C22 witness: a payload of a cell without the pattern whose summary holds
\* a later dash, and one of a cell without any dash.
C22_Witness ==
  \E f \in Frames :
    /\ \E k \in 1..Len(f.payloads) :
         /\ ScenarioSearch(ScenarioCell(f, k)) = <<>>
         /\ \E i \in 1..Len(f.payloads[k].case.summary) : f.payloads[k].case.summary[i] = "-"
         /\ f.payloads[k].case.title # <<>>
    /\ \E k \in 1..Len(f.payloads) :
         /\ Hyphens(_strip_markdown(ScenarioCell(f, k))) = {}
         /\ f.payloads[k].case.title # <<>>

\* C23: case.summary is the summary extracted from the scenario cell when
\* that is non-empty, and key_effect_note when the extraction gave an empty
\* summary with a non-empty title.
C23_SummaryOrEffectNote ==
  \A f \in Frames : \A k \in 1..Len(f.payloads) :
    LET ts   == _extract_title_and_summary(ScenarioCell(f, k))
        case == f.payloads[k].case
    IN /\ ts[2] # <<>> => case.summary = ts[2]
       /\ ts[2] = <<>> /\ ts[1] # <<>> =>
            /\ case.summary = case.key_effect_note
            /\ case.key_effect_note = _strip_markdown(EffectCell(f, k))

\* C23 witness: a call returned a payload whose summary is its non-empty
\* effect note, the scenario cell giving a title only.
C23_Witness ==
  \E f \in Frames :
    /\ f.pc = "done"
    /\ \E k \in 1..Len(f.payloads) :
         /\ _extract_title_and_summary(ScenarioCell(f, k))[2] = <<>>
         /\ f.payloads[k].case.title # <<>>
         /\ f.payloads[k].case.summary # <<>>
         /\ f.payloads[k].case.summary = _strip_markdown(EffectCell(f, k))

\* C24: case.detailed_notes is the markdown-stripped text of the row's source
\* cell when a source column is resolved and that text is non-empty, and None
\* otherwise (no source column, row too short, or cell empty after
\* stripping); it is never the empty string.
C24_DetailedNotesOrNone ==
  \A f \in Frames : \A k \in 1..Len(f.payloads) :
    LET notes == f.payloads[k].case.detailed_notes
        cols  == f.origin[k].cols
        cells == SplitCells(f.origin[k].line)
        text  == IF cols.source_idx = NoIndex \/ cols.source_idx >= Len(cells)
                 THEN <<>>
                 ELSE _strip_markdown(cells[cols.source_idx + 1])
    IN /\ notes # <<>>
       /\ notes = IF text # <<>> THEN text ELSE None

\* C24 witness: a payload of a row whose source cell holds markdown markers
\* only, with detailed_notes None.
C24_Witness ==
  \E f \in Frames : \E k \in 1..Len(f.payloads) :
    /\ f.origin[k].cols.source_idx # NoIndex
    /\ OriginCell(f, k, f.origin[k].cols.source_idx) # <<>>
    /\ f.payloads[k].case.detailed_notes = None

\* The positions where the lines of a text start, and the line at one.
LineStarts(s) == {p \in 1..Len(s) : IsLineStart(s, p)}
LineAt(s, p) == Slice(s, p, LineEnd(s, p) - 1)

\* The line at p is a heading line, read on its own.
IsHeadingLine(s, p) == HeadingGroupStart(LineAt(s, p), 1) # 0

\* The line at p lies in the body of the section at index k of matches.
InBody(s, matches, k, p) ==
  /\ matches[k].stop <= p
  /\ LineEnd(s, p) - 1 <=
       (IF k + 1 <= Len(matches) THEN matches[k + 1].start - 1 ELSE Len(s))

\* C25: every table line after the first heading belongs to exactly one
\* section, the one opened by the nearest heading above it; a table line
\* before the first heading belongs to no section, and a document without
\* heading yields no payload.
C25_SectionsPartitionTableLines ==
  \A f \in Frames :
    f.pc = "done" =>
      LET s == f.agent_output
          matches == f.section_matches
          H == {h \in LineStarts(s) : IsHeadingLine(s, h)}
      IN /\ H = {} => f.payloads = <<>>
         /\ \A p \in LineStarts(s) :
              IsTableLine(LineAt(s, p)) =>
                LET above == {h \in H : h < p}
                    K == {k \in 1..Len(matches) : InBody(s, matches, k, p)}
                IN IF above = {} THEN K = {}
                   ELSE /\ Cardinality(K) = 1
                        /\ \A k \in K :
                             LET h == CHOOSE x \in above : \A y \in above : y <= x
                             IN /\ matches[k].start <= h
                                /\ h < matches[k].stop

\* The lowercased values of the fields duplicates are found by.
DedupValues(self, case) ==
  [i \in 1..Len(self.deduplicate_by_fields) |-> StrLower(case[self.deduplicate_by_fields[i]])]

\* A normalized case has every required field at least 5 characters long and
\* the required fields at least min_text_length characters long together.
IsValidCase(self, case) ==
  /\ \A i \in 1..Len(self.required_text_fields) :
       TextLen(case[self.required_text_fields[i]]) >= 5
  /\ CombinedLength(case, self.required_text_fields, 1) >= self.min_text_length

\* C26: clean_cases returns the valid cases in input order with duplicates
\* removed: no two returned cases have the same lowercased values of the dedup
\* fields, for each such value the first valid occurrence in the input is the
\* one kept, every returned case is valid, and the input list and its dicts
\* are not modified.
C26_ValidCasesWithoutDuplicates ==
  cleaner.pc = "returned" =>
    LET self  == cleaner.self
        out   == cleaner.cleaned_cases
        kept  == cleaner.kept
        given == cleaner.given
        clean == [n \in 1..Len(given) |-> NormalizedCopy(given[n])]
        Valid == {n \in 1..Len(given) : IsValidCase(self, clean[n])}
    IN /\ cleaner.cases = given
       /\ Len(kept) = Len(out)
       /\ \A j \in 1..Len(out) :
            /\ kept[j] \in Valid
            /\ out[j] = clean[kept[j]]
            /\ j > 1 => kept[j - 1] < kept[j]
       /\ \A i, j \in 1..Len(out) :
            i # j => DedupValues(self, out[i]) # DedupValues(self, out[j])
       /\ \A n \in Valid :
            \E j \in 1..Len(out) :
              /\ DedupValues(self, out[j]) = DedupValues(self, clean[n])
              /\ \A m \in Valid :
                   DedupValues(self, clean[m]) = DedupValues(self, clean[n]) => kept[j] <= m

\* C27: economic_effects is non-empty exactly when case.key_effect_note is
\* non-empty, and the single effect's period_note is case.key_effect_note.
C27_EffectsMatchEffectNote ==
  \A f \in Frames : \A k \in 1..Len(f.payloads) :
    LET effects == f.payloads[k].economic_effects
        note    == f.payloads[k].case.key_effect_note
    IN /\ effects # <<>> <=> note # <<>>
       /\ effects # <<>> => Len(effects) = 1 /\ effects[1].period_note = note

\* C27 witness: a returned payload whose effect cell holds markdown and whose
\* single effect has the stripped note, which is shorter than the cell.
C27_Witness ==
  \E f \in Frames : \E k \in 1..Len(f.payloads) :
    /\ f.pc = "done"
    /\ Len(f.payloads[k].economic_effects) = 1
    /\ f.payloads[k].case.key_effect_note # <<>>
    /\ Len(f.payloads[k].case.key_effect_note) < Len(EffectCell(f, k))

\* C28: in one run of main each payload is saved at most once: when main has
\* finished without a save error, the database holds as many case rows more
\* than before (none) as parse_agent_output returned payloads.
C28_EachPayloadSavedOnce ==
  (/\ session[2].pc = "closed"
   /\ \A s \in DOMAIN session : ~Raised(session[s]))
    => Cardinality(database.cases) = Len(results[1][2])

\* A list of driver names holds the same name more than once.
HasRepeatedName(driver_names) ==
  \E i, j \in 1..Len(driver_names) : i # j /\ driver_names[i] = driver_names[j]

\* C29: a save_case whose driver_names holds the same name more than once
\* commits, leaving one technology-driver row for each name and one link
\* between the case and that driver (the database failing no statement).
C29_RepeatedDriverNameSaved ==
  ~fault =>
    \A a \in Attempts :
      HasRepeatedName(a.payload.technology_drivers) =>
        /\ a.outcome = "returned"
        /\ \A i \in 1..Len(a.payload.technology_drivers) :
             LET rows == {r \in a.after.drivers : r.name = a.payload.technology_drivers[i]}
             IN /\ Cardinality(rows) = 1
                /\ \A r \in rows : [case_id |-> a.case_id, driver_id |-> r.id] \in a.after.links

\* The cases of the save_case calls that committed: those that returned or
\* failed only after their commit, and those that are past their commit.
CommittedCaseIds ==
  {a.case_id : a \in {b \in Attempts : b.outcome = "returned" \/ b.failed_at = "report"}}
    \cup {session[s].case_id :
            s \in {t \in DOMAIN session :
                     \/ session[t].pc = "report"
                     \/ session[t].pc = "except" /\ session[t].failed_at = "report"}}

\* C30: under any interleaving of save_case calls of two sessions for
\* payloads that name the same region, sector or driver, none of them there
\* yet, the committed state never holds two reference rows with the same name,
\* and a call that loses the race ends rolled back with its error raised, not
\* partially committed: the committed case rows are those of the calls that
\* committed, every link and effect belongs to one of them, and every
\* reference row is used by one of them.
C30_RaceKeepsNamesUnique ==
  /\ \A t \in {"regions", "sectors", "drivers"} :
       \A r, q \in database[t] : r.name = q.name => r = q
  /\ {c.id : c \in database.cases} = CommittedCaseIds
  /\ \A l \in database.links : \E c \in database.cases : l.case_id = c.id
  /\ \A e \in database.effects : \E c \in database.cases : e.case_id = c.id
  /\ \A r \in database.regions : \E c \in database.cases : c.region_id = r.id
  /\ \A r \in database.sectors : \E c \in database.cases : c.sector_id = r.id
  /\ \A r \in database.drivers : \E l \in database.links : l.driver_id = r.id
  /\ \A s \in DOMAIN session :
       session[s].pc \in {"raised", "closed", "idle", "loop"} => session[s].tx = EmptyTables

\* C30 witness: a save_case lost the race: its flush violated a unique name
\* that the other session committed while it was under way, it was rolled
\* back and raised, and the database failed no statement of its own accord.
C30_Witness ==
  /\ ~fault
  /\ \E s, t \in DOMAIN session :
       /\ s # t
       /\ session[s].pc = "closed"
       /\ \E i \in 1..Len(session[s].attempts) : \E j \in 1..Len(session[t].attempts) :
            LET a == session[s].attempts[i]
                b == session[t].attempts[j]
            IN /\ a.outcome = "raised" /\ a.failed_at = "flush"
               /\ ~HasRepeatedName(a.payload.technology_drivers)
               /\ b.outcome = "returned"
               /\ a.payload.case.region_name = b.payload.case.region_name
               /\ \A r \in a.before.regions : r.name # a.payload.case.region_name
               /\ \E r \in a.after.regions : r.name = a.payload.case.region_name

====
